---- MODULE Spec2Model ----
(***************************************************************************)
(* Streaming core of ljoukov/physi:                                        *)
(*   - createParser (src/lib/util/eventsource-parser.ts): the incremental  *)
(*     event-stream parser;                                                *)
(*   - parseKeyValueDelta / parseKeyValueDeltas (delta_parser): the        *)
(*     key-value delta parser and its streaming wrapper;                   *)
(*   - mergeGenerators (src/lib/server/util/generators.ts): the fan-in     *)
(*     merge of asynchronous generators.                                   *)
(* Strings are sequences of one-character strings.  JavaScript indices are *)
(* 0-based: buffer[i] of the source is buf[i + 1] here.                    *)
(***************************************************************************)
EXTENDS Integers, Sequences, FiniteSets, TLC

(***************************************************************************)
(* Bounds of the model.                                                    *)
(***************************************************************************)
\* number of lines of an event-stream document
MaxLines == 2
\* number of whole lines fed to the parser one by one
MaxFeeds == 4
\* number of pieces of a key-value text
MaxPieces == 4
\* number of key-value lines and separator lines of a key-value document
MaxItems == 3
\* number of feed calls begun on one parser
MaxCalls == 2
\* number of payloads handed to a normalizer
MaxPayloads == 2
\* number of fragments read from the response body of one stream
MaxReads == 2
\* number of events one fragment completes
MaxEvents == 2
\* number of generators given to mergeGenerators
NSources == 2
\* number of values one generator yields before it ends
MaxVals == 2
MaxDeltas == 3
MaxQPW == 2
MaxWindow == 2
MaxClock == 3
MaxCallers == 2
MaxWorkers == 2
MaxTasks == 3
MaxFetches == 3
MaxSegments == 2
MaxRewrites == 1

(***************************************************************************)
(* State.                                                                  *)
(***************************************************************************)
\* createParser and its caller
VARIABLES
  doc,      \* the event-stream document of this run
  rest,     \* the part of doc not fed yet
  parser,   \* the parser's closure state, with the events dispatched so far
  fresh,    \* after reset(): a new parser fed what was fed since, for comparison
  fedLines  \* the lines fed one by one so far, when the caller feeds whole lines

\* parseKeyValueDeltas and its source of deltas
VARIABLES
  kvDoc,      \* the whole text of this run
  kvRest,     \* the part of kvDoc not yet delivered as a delta
  kvBuffer,   \* parseKeyValueDeltas: its running buffer
  kvOut,      \* parseKeyValueDeltas: the tokens yielded so far
  kvFailed,   \* parseKeyValueDeltas: it threw 'Unexpected end of parse'
  kvIn,       \* the argument of the last parseKeyValueDelta call
  kvTokens,   \* the tokens that call produced
  kvItems     \* the lines kvDoc was written from, <<>> for a free text

\* mergeGenerators, its generators and its consumer
VARIABLES
  answers,     \* per source: the answers it has given to next() calls, in order
  reqs,        \* per source: next() calls made on it so far
  slotReq,     \* per source: the request nextPromisses[index] waits for
  retired,     \* per source: nextPromisses[index] = never
  consumed,    \* per source: results of next() the merge has taken from a race
  count,       \* the variable count of mergeGenerators
  arrived,     \* sources whose promise in nextPromisses is settled, oldest first
  raceWinner,  \* the promise that settles the pending Promise.race, 0 if none yet
  mpc,         \* where the merge is
  yielded,     \* per source: the values of it the merge has yielded, in order
  lateYield,   \* a value was yielded while an older value of another source waited
  staleYield,  \* a value was yielded whose pull settled after a fault had
  retSent,     \* per source: return() calls made on it
  error        \* the source whose fault the merge threw, 0 if none

\* a normalizer (parseDelta) and the usage accumulator of one stream
VARIABLES
  provider,    \* which normalizer the stream uses
  usage,       \* llmUsage: responseModel, promptTokens, completionTokens
  pay,         \* the payloads handed to the normalizer so far, in order
  normFailed   \* the last normalizer call raised

\* what the feed calls of one parser did with the characters they were given
VARIABLES
  resolved,    \* characters of the input the feed calls resolved into lines
  everRaised,  \* the receive-callback raised in some feed call
  scanned      \* per character of the document, the times the scan loop read it

feedVars == <<resolved, everRaised, scanned>>

\* feed calls in flight: feed is an async function, suspended at its awaits
VARIABLES
  calls,       \* per feed call: where it is suspended and its local variables
  serial,      \* the parser state had each call returned before the next began
  overlapped   \* a call or a reset began while a feed call was suspended

asyncVars == <<calls, serial, overlapped>>

\* mergeGenerators over sources that never run out: what decides which pull
\* the race takes
VARIABLES
  nextPromisses,  \* per source: "unset", "pending", "value", "done", "fault", "never"
  mergePos,       \* "idle", "init", "race", "yield", "done", "faulted"
  winner,         \* index the pending race settles with, 0 while none
  lastIndex,      \* source of the value yielded last, 0 before the first
  overtaken,      \* per source: values of other sources yielded while its
                  \* settled pull waited, counted up to MaxVals
  returned        \* per source: return() was called on the generator

raceVars == <<nextPromisses, mergePos, winner, lastIndex, overtaken, returned>>

\* generatorToResponse and callbackToResponse: the start() of the transform
\* that writes the frames of the response
VARIABLES
  respKind,    \* "none", "generator" or "callback"
  dataPrefix,  \* the dataPrefix option
  deltas,      \* the deltas the producer gives, in order
  ending,      \* how the producer ends: "end" or "fault"
  taken,       \* number of deltas taken from the producer
  frames,      \* the chunks enqueued on the response, in order
  wpc          \* "idle", "loop", "terminated", "caught", "closed"

respVars == <<respKind, dataPrefix, deltas, ending, taken, frames, wpc>>

\* SlidingWindowRateLimiter and the callers of waitForAvailability
VARIABLES
  maxQPW,
  windowMs,           \* the window, in ticks of the clock
  clock,              \* Date.now()
  requestTimestamps,
  sleeping,           \* per caller: TRUE while it waits in sleepSec
  admissions          \* the clock readings at which a caller was admitted

limVars == <<maxQPW, windowMs, clock, requestTimestamps, sleeping, admissions>>

\* rateLimit(numWorkers, tasks)
VARIABLES
  numWorkers,
  tasks,       \* per task: how its promise settles, "ok" or "fail"
  taskIter,    \* number of tasks the shared iterator has handed out
  workers,     \* per worker: "idle" before the call, the task it "awaits",
               \* "done" or "rejected"
  started,     \* per task: number of times it was called
  poolPc       \* "idle", "called", "resolved" or "rejected"

poolVars == <<numWorkers, tasks, taskIter, workers, started, poolPc>>

\* getGoogleAccessToken and its cache of token promises
VARIABLES
  accessTokenCache,  \* per cache key: the promise stored, 0 for none
  fetches,           \* the promises of fetchGoogleAccessToken, in order of
                     \* creation: the key, and "pending", "fresh", "expired"
                     \* or "failed"
  getCalls           \* per caller: where its call of getGoogleAccessToken is

tokVars == <<accessTokenCache, fetches, getCalls>>

\* tts: the segment tasks, the body of tts and its finally block
VARIABLES
  numSegments,
  segTasks,       \* per segment task: where it is, its loop counter i, the
                  \* attempts it made and the times it wrote its file again
  filesToDelete,  \* the segments whose file name was pushed, in order
  onDisk,         \* the segments whose temporary file exists
  ttsPc,          \* "idle", "awaits", "joins", "finally", "ended"
  awaited,        \* the segment whose promise the body awaits
  deleteIndex,    \* entries of filesToDelete the finally block has visited
  ttsOutcome      \* "", "result" or "error"

ttsVars == <<numSegments, segTasks, filesToDelete, onDisk, ttsPc, awaited, deleteIndex, ttsOutcome>>

svcVars == <<respVars, limVars, poolVars, tokVars, ttsVars>>

\* the service variables other than those of one component
exceptResp == <<limVars, poolVars, tokVars, ttsVars>>
exceptLim == <<respVars, poolVars, tokVars, ttsVars>>
exceptPool == <<respVars, limVars, tokVars, ttsVars>>
exceptTok == <<respVars, limVars, poolVars, ttsVars>>
exceptTts == <<respVars, limVars, poolVars, tokVars>>

sseVars == <<doc, rest, parser, fresh, fedLines>>

\* llmStream: the reader of the response body and the consumer-facing
\* generator, joined by dataQueue, llmDone, llmError and onDataCallback
VARIABLES
  rpc,             \* reader: "idle", "reading", "feeding", "ended"
  reads,           \* number of fragments read
  fragment,        \* payloads of the events the fragment being fed still holds
  dataQueue,       \* deltas normalized and not yet yielded
  llmDone,
  llmError,        \* "" (undefined), "source" or "normalizer"
  onDataCallback,  \* TRUE while the generator waits on its promise
  gpc,             \* generator: "start", "wait", "yield", "done", "thrown",
                   \* "closed"
  got,             \* the deltas the consumer received, in order
  liveAtFault      \* the generator had not finished when llmError was set

usageVars == <<provider, usage, pay, normFailed>>

streamVars == <<rpc, reads, fragment, dataQueue, llmDone, llmError,
                onDataCallback, gpc, got, liveAtFault>>

llmVars == <<usageVars, streamVars>>


kvVars == <<kvDoc, kvRest, kvBuffer, kvOut, kvFailed, kvIn, kvTokens, kvItems>>

mergeVars == <<answers, reqs, slotReq, retired, consumed, count, arrived, raceWinner,
               mpc, yielded, lateYield, staleYield, retSent, error>>
vars == <<sseVars, kvVars, mergeVars, llmVars, feedVars, asyncVars, raceVars, svcVars>>

(***************************************************************************)
(* Strings.                                                                *)
(***************************************************************************)
LF == "\n"
CR == "\r"
NUL == "\\0"

Min(a, b) == IF a < b THEN a ELSE b
Max(a, b) == IF a > b THEN a ELSE b

\* String.prototype.slice(from) / substring(from), 0-based, 0 <= from
SliceFrom(s, from) == SubSeq(s, from + 1, Len(s))

\* String.prototype.slice(from, to), 0-based, 0 <= from, to exclusive
Slice(s, from, to) == SubSeq(s, from + 1, Min(to, Len(s)))

\* s[i] of JavaScript: undefined (here "") past the end
CharAt(s, i) == IF i >= 0 /\ i < Len(s) THEN s[i + 1] ELSE ""

\* an optional string: undefined, or a string
Undefined == <<>>
Some(s) == <<s>>

RECURSIVE Concat(_)
Concat(ss) == IF ss = <<>> THEN <<>> ELSE Head(ss) \o Concat(Tail(ss))

IsPrefix(a, b) == Len(a) <= Len(b) /\ SubSeq(b, 1, Len(a)) = a
IsSuffix(a, b) == Len(a) <= Len(b) /\ SubSeq(b, Len(b) - Len(a) + 1, Len(b)) = a

(***************************************************************************)
(* EventStreamParser: createParser of eventsource-parser.ts.               *)
(***************************************************************************)
\* the three characters of the byte-order mark (char codes 239, 187, 191)
BOM == <<"xEF", "xBB", "xBF">>

hasBom(buffer) ==
  \A index \in 0..(Len(BOM) - 1) : CharAt(buffer, index) = BOM[index + 1]

\* reset(): the state after construction
ResetState ==
  [ isFirstChunk        |-> TRUE,
    buffer              |-> <<>>,
    startingPosition    |-> 0,
    startingFieldLength |-> -1,
    eventId             |-> Undefined,
    eventName           |-> Undefined,
    data                |-> <<>>,
    out                 |-> <<>> ]

ParsedEvent(id, event, data) ==
  [type |-> "event", id |-> id, event |-> event, data |-> data, value |-> 0]

ReconnectInterval(value) ==
  [type |-> "reconnect-interval", id |-> Undefined, event |-> Undefined,
   data |-> <<>>, value |-> value]

Digits == <<"0", "1", "2", "3", "4", "5", "6", "7", "8", "9">>
IsDigit(c) == \E d \in 1..10 : Digits[d] = c
DigitVal(c) == (CHOOSE d \in 1..10 : Digits[d] = c) - 1
IsWhite(c) == c \in {" ", LF, CR, "\t"}

RECURSIVE SkipWhite(_)
SkipWhite(s) == IF s # <<>> /\ IsWhite(Head(s)) THEN SkipWhite(Tail(s)) ELSE s

RECURSIVE DigitsValue(_, _, _)
\* the value of the longest prefix of digits of s: [n |-> digits read, val |-> value]
DigitsValue(s, n, acc) ==
  IF s # <<>> /\ IsDigit(Head(s))
    THEN DigitsValue(Tail(s), n + 1, acc * 10 + DigitVal(Head(s)))
    ELSE [n |-> n, val |-> acc]

\* parseInt(value, 10): leading white space, an optional sign, then the longest
\* prefix of digits; NaN when there is no digit
ParseInt(value) ==
  LET s0   == SkipWhite(value)
      neg  == s0 # <<>> /\ Head(s0) = "-"
      s1   == IF s0 # <<>> /\ Head(s0) \in {"-", "+"} THEN Tail(s0) ELSE s0
      d    == DigitsValue(s1, 0, 0)
  IN  IF d.n = 0 THEN [nan |-> TRUE, val |-> 0]
      ELSE [nan |-> FALSE, val |-> IF neg THEN 0 - d.val ELSE d.val]

Includes(s, c) == \E i \in 1..Len(s) : s[i] = c

Dispatch(p, event) == [p EXCEPT !.out = Append(@, event)]

\* mutant: the pending id survives a dispatch
BlankLine_KeepId(p) ==
  LET p1 == IF Len(p.data) > 0
              THEN [Dispatch(p, ParsedEvent(p.eventId,
                                   IF p.eventName = Undefined \/ p.eventName = Some(<<>>)
                                     THEN Undefined ELSE p.eventName,
                                   Slice(p.data, 0, Len(p.data) - 1)))
                      EXCEPT !.data = <<>>]
              ELSE p
  IN  [p1 EXCEPT !.eventName = Undefined]

\* mutant: the pending event name is cleared only when an event is dispatched
BlankLine_KeepName(p) ==
  IF Len(p.data) > 0
    THEN [Dispatch(p, ParsedEvent(p.eventId,
                         IF p.eventName = Undefined \/ p.eventName = Some(<<>>)
                           THEN Undefined ELSE p.eventName,
                         Slice(p.data, 0, Len(p.data) - 1)))
            EXCEPT !.data = <<>>, !.eventId = Undefined, !.eventName = Undefined]
    ELSE p

\* the blank-line branch of parseEventStreamLine
BlankLine(p) ==
  LET p1 == IF Len(p.data) > 0
              THEN [Dispatch(p, ParsedEvent(p.eventId,
                                   IF p.eventName = Undefined \/ p.eventName = Some(<<>>)
                                     THEN Undefined ELSE p.eventName,
                                   Slice(p.data, 0, Len(p.data) - 1)))
                      EXCEPT !.data = <<>>, !.eventId = Undefined]
              ELSE p
  IN  [p1 EXCEPT !.eventName = Undefined]

\* the field branch of parseEventStreamLine
FieldLine(p, field, value) ==
  IF field = (<<"d", "a", "t", "a">>)
    THEN [p EXCEPT !.data = @ \o (IF value # <<>> THEN value \o <<LF>> ELSE <<LF>>)]
  ELSE IF field = (<<"e", "v", "e", "n", "t">>)
    THEN [p EXCEPT !.eventName = Some(value)]
  ELSE IF field = (<<"i", "d">>) /\ ~Includes(value, NUL)
    THEN [p EXCEPT !.eventId = Some(value)]
  ELSE IF field = (<<"r", "e", "t", "r", "y">>)
    THEN LET retry == ParseInt(value)
         IN  IF ~retry.nan THEN Dispatch(p, ReconnectInterval(retry.val)) ELSE p
  ELSE p

parseEventStreamLine(p, lineBuffer, index, fieldLength, lineLength) ==
  IF lineLength = 0 THEN BlankLine(p)
  ELSE
    LET noValue == fieldLength < 0
        field   == Slice(lineBuffer, index,
                         index + (IF noValue THEN lineLength ELSE fieldLength))
        step    == IF noValue THEN lineLength
                   ELSE IF CharAt(lineBuffer, index + fieldLength + 1) = " "
                     THEN fieldLength + 2
                   ELSE fieldLength + 1
        position    == index + step
        valueLength == lineLength - step
        value   == Slice(lineBuffer, position, position + valueLength)
    IN  FieldLine(p, field, value)

RECURSIVE ScanLine(_, _, _, _, _, _, _)
\* the for loop of feed: from index, until a line length >= 0 is found or the
\* buffer ends
ScanLine(buffer, index, length, position, lineLength, fieldLength, discard) ==
  IF ~(lineLength < 0 /\ index < length)
    THEN [lineLength |-> lineLength, fieldLength |-> fieldLength, discard |-> discard]
  ELSE
    LET character == CharAt(buffer, index)
    IN  IF character = ":" /\ fieldLength < 0
          THEN ScanLine(buffer, index + 1, length, position, lineLength,
                        index - position, discard)
        ELSE IF character = CR
          THEN ScanLine(buffer, index + 1, length, position, index - position,
                        fieldLength, TRUE)
        ELSE IF character = LF
          THEN ScanLine(buffer, index + 1, length, position, index - position,
                        fieldLength, discard)
        ELSE ScanLine(buffer, index + 1, length, position, lineLength,
                      fieldLength, discard)

\* where the scan of a line starts
ScanStart(p, position) == p.startingPosition

\* the absorb flag at the start of a feed call
InitialDiscard(p) == FALSE

RECURSIVE FeedLoop(_, _, _, _)
\* the while loop of feed; the result is the state and the final position
FeedLoop(p, length, position, discardTrailingNewline) ==
  IF ~(position < length) THEN [p |-> p, position |-> position]
  ELSE
    LET pos == IF discardTrailingNewline /\ CharAt(p.buffer, position) = LF
                 THEN position + 1 ELSE position
        s   == ScanLine(p.buffer, ScanStart(p, pos), length, pos, -1,
                        p.startingFieldLength, FALSE)
    IN  IF s.lineLength < 0
          THEN [p |-> [p EXCEPT !.startingPosition = length - pos,
                                !.startingFieldLength = s.fieldLength],
                position |-> pos]
        ELSE
          LET p1 == [p EXCEPT !.startingPosition = 0, !.startingFieldLength = -1]
              p2 == parseEventStreamLine(p1, p.buffer, pos, s.fieldLength, s.lineLength)
          IN  FeedLoop(p2, length, pos + s.lineLength + 1, s.discard)

\* mutant: the mark is stripped from the start of the buffer in every call
StripBom_Always(p, buffer) ==
  IF hasBom(buffer) THEN SliceFrom(buffer, Len(BOM)) ELSE buffer

\* the buffer after the byte-order mark check of feed
StripBom(p, buffer) ==
  IF p.isFirstChunk /\ hasBom(buffer) THEN SliceFrom(buffer, Len(BOM)) ELSE buffer

\* mutant: the buffer is reset when it was consumed whole and kept as it is
\* otherwise
FeedBuffer_NoSlice(p, b1) ==
  LET length == Len(b1)
      r      == FeedLoop([p EXCEPT !.buffer = b1, !.isFirstChunk = FALSE],
                         length, 0, InitialDiscard(p))
  IN  [r.p EXCEPT !.buffer = IF r.position = length THEN <<>> ELSE b1]

\* feed from `isFirstChunk = false` on, with b1 the buffer at that point
FeedBuffer(p, b1) ==
  LET length == Len(b1)
      r      == FeedLoop([p EXCEPT !.buffer = b1, !.isFirstChunk = FALSE],
                         length, 0, InitialDiscard(p))
  IN  [r.p EXCEPT !.buffer = IF r.position = length THEN <<>>
                             ELSE IF r.position > 0 THEN SliceFrom(b1, r.position)
                             ELSE b1]

\* feed(chunk)
feed(p, chunk) ==
  LET b0 == IF p.buffer # <<>> THEN p.buffer \o chunk ELSE chunk
  IN  FeedBuffer(p, StripBom(p, b0))

\* mutant: reset() leaves the first-chunk flag as it is
reset_KeepFlag(p) ==
  [ResetState EXCEPT !.out = p.out, !.isFirstChunk = p.isFirstChunk]

\* reset(): the closure state is as after construction; what was dispatched
\* stays dispatched
reset(p) == [ResetState EXCEPT !.out = p.out]

\* no reset() was called yet
NoFresh == [on |-> FALSE, p |-> ResetState, pending |-> FALSE, mark |-> 0,
            fed |-> FALSE]

\* The lines and line terminators the documents of the model are made of.
SseLines ==
  { <<"d", "a", "t", "a", ":", "x">>,
    <<"d", "a", "t", "a">>,
    <<"i", "d", ":", "1">>,
    <<"e", "v", "e", "n", "t", ":", "e">>,
    <<"r", "e", "t", "r", "y", ":", "7">>,
    <<>>,
    BOM \o <<"d", "a", "t", "a", ":", " ", "y">> }

SseTerminators == { <<LF>>, <<CR>>, <<CR, LF>> }

RECURSIVE SseDocsOf(_)
\* the documents of exactly n lines
SseDocsOf(n) ==
  IF n = 0 THEN { <<>> }
  ELSE { l \o t \o d : l \in SseLines, t \in SseTerminators, d \in SseDocsOf(n - 1) }

SseDocs == UNION { SseDocsOf(n) : n \in 1..MaxLines }

\* the caller feeds the next fragment: the first n characters not fed yet
Feed(n) ==
  /\ n \in 1..Len(rest)
  /\ parser' = feed(parser, SubSeq(rest, 1, n))
  /\ fresh' = IF fresh.on
                 THEN [fresh EXCEPT !.p = feed(@, SubSeq(rest, 1, n)), !.fed = TRUE]
               ELSE fresh
  /\ rest' = SliceFrom(rest, n)
  /\ UNCHANGED <<doc, fedLines, kvVars, mergeVars, llmVars, feedVars, asyncVars, raceVars, svcVars>>

\* The documents that end every line with one line feed and carry no
\* byte-order mark; the last line may be unfinished.
SseLfLines == { l \in SseLines : ~hasBom(l) }

SseLfTails == { <<>>, <<"d", "a">>, <<"i", "d", ":">> }

RECURSIVE SseLfDocsOf(_)
SseLfDocsOf(n) ==
  IF n = 0 THEN SseLfTails
  ELSE { l \o <<LF>> \o d : l \in SseLfLines, d \in SseLfDocsOf(n - 1) }

SseLfDocs == UNION { SseLfDocsOf(n) : n \in 1..MaxLines }

\* the documents fed to a parser that is reset on the way
ResetLines ==
  { <<"d", "a", "t", "a">>,
    <<"i", "d", ":", "1">>,
    <<"e", "v", "e", "n", "t">>,
    <<>>,
    BOM \o <<"d", "a", "t", "a">> }

RECURSIVE ResetDocsOf(_)
ResetDocsOf(n) ==
  IF n = 0 THEN { <<>> }
  ELSE { l \o <<LF>> \o d : l \in ResetLines, d \in ResetDocsOf(n - 1) }

ResetDocs == UNION { ResetDocsOf(n) : n \in 1..MaxLines }

\* the caller calls reset() after it fed a part of the document, and goes on
\* with the rest of the document (again = FALSE) or with the document from its
\* start (again = TRUE)
Reset(again) ==
  /\ ~fresh.on
  /\ rest # doc
  /\ parser' = reset(parser)
  /\ fresh' = [on |-> TRUE, p |-> ResetState, pending |-> parser.data # <<>>,
                mark |-> Len(parser.out), fed |-> FALSE]
  /\ rest' = IF again THEN doc ELSE rest
  /\ UNCHANGED <<doc, fedLines, kvVars, mergeVars, llmVars, feedVars, asyncVars, raceVars, svcVars>>

\* The lines of a stream fed line by line: a field name alone (bare), or a
\* field name, a colon and the value; the blank line has no field name.
StreamLines ==
  { [field |-> <<>>, value |-> <<>>, bare |-> TRUE],
    [field |-> <<"d", "a", "t", "a">>, value |-> <<"x">>, bare |-> FALSE],
    [field |-> <<"d", "a", "t", "a">>, value |-> <<>>, bare |-> TRUE],
    [field |-> <<"e", "v", "e", "n", "t">>, value |-> <<"e">>, bare |-> FALSE],
    [field |-> <<"e", "v", "e", "n", "t">>, value |-> <<>>, bare |-> TRUE],
    [field |-> <<"i", "d">>, value |-> <<"1">>, bare |-> FALSE],
    [field |-> <<"r", "e", "t", "r", "y">>, value |-> <<"7">>, bare |-> FALSE],
    [field |-> <<"r", "e", "t", "r", "y">>, value |-> <<"-", "5">>, bare |-> FALSE],
    [field |-> <<"r", "e", "t", "r", "y">>, value |-> <<"7", "x">>, bare |-> FALSE],
    [field |-> <<"r", "e", "t", "r", "y">>, value |-> <<"x">>, bare |-> FALSE] }

\* the text of a line, without its terminator
StreamLineText(l) == IF l.bare THEN l.field ELSE l.field \o <<":">> \o l.value

\* the caller feeds one whole line with its line feed
FeedLine(l) ==
  /\ Len(fedLines) < MaxFeeds
  /\ parser' = feed(parser, StreamLineText(l) \o <<LF>>)
  /\ fedLines' = Append(fedLines, l)
  /\ doc' = doc \o StreamLineText(l) \o <<LF>>
  /\ UNCHANGED <<rest, fresh, kvVars, mergeVars, llmVars, feedVars, asyncVars, raceVars, svcVars>>

\* what one feed call of the whole document dispatches
WholeFeed(d) == feed(ResetState, d).out

(***************************************************************************)
(* A feed call as its caller and its receive-callback see it: the callback *)
(* may raise, which rejects parseEventStreamLine and then feed at their    *)
(* await; the statements after the await do not run.  The call also tells  *)
(* which characters of the buffer its scan loop read.                      *)
(***************************************************************************)
\* the buffer indexes the scan loop of one line reads: from its start index
\* to the terminator it finds, or to the end of the buffer
ScanRange(p, pos, length, s) ==
  [from |-> ScanStart(p, pos),
   to   |-> IF s.lineLength < 0 THEN length - 1 ELSE pos + s.lineLength]

RECURSIVE FeedLoopCall(_, _, _, _, _, _)
\* the while loop of feed with a receive-callback that raises when it is
\* handed its event number failAt + 1 (never, if failAt < 0): the state, the
\* position, whether the call raised, and the ranges the scan loop read
FeedLoopCall(p, length, position, discardTrailingNewline, failAt, ranges) ==
  IF ~(position < length)
    THEN [p |-> p, position |-> position, raised |-> FALSE, ranges |-> ranges]
  ELSE
    LET pos == IF discardTrailingNewline /\ CharAt(p.buffer, position) = LF
                 THEN position + 1 ELSE position
        s   == ScanLine(p.buffer, ScanStart(p, pos), length, pos, -1,
                        p.startingFieldLength, FALSE)
        rs  == Append(ranges, ScanRange(p, pos, length, s))
    IN  IF s.lineLength < 0
          THEN [p |-> [p EXCEPT !.startingPosition = length - pos,
                                !.startingFieldLength = s.fieldLength],
                position |-> pos, raised |-> FALSE, ranges |-> rs]
        ELSE
          LET p1 == [p EXCEPT !.startingPosition = 0, !.startingFieldLength = -1]
              p2 == parseEventStreamLine(p1, p.buffer, pos, s.fieldLength, s.lineLength)
          IN  IF Len(p2.out) > Len(p1.out) /\ Len(p1.out) = failAt
                THEN [p |-> p1, position |-> pos, raised |-> TRUE, ranges |-> rs]
                ELSE FeedLoopCall(p2, length, pos + s.lineLength + 1, s.discard,
                                  failAt, rs)

\* feed(chunk) with that callback: the state after the call, whether it
\* raised, the characters of the buffer the call resolved into lines (with
\* a stripped byte-order mark), the buffer the loop ran on and the ranges
\* its scan loop read
feedCall(p, chunk, failAt) ==
  LET b0 == IF p.buffer # <<>> THEN p.buffer \o chunk ELSE chunk
      b1 == StripBom(p, b0)
      length == Len(b1)
      r  == FeedLoopCall([p EXCEPT !.buffer = b1, !.isFirstChunk = FALSE],
                         length, 0, InitialDiscard(p), failAt, <<>>)
  IN  [p |-> IF r.raised THEN r.p
             ELSE [r.p EXCEPT !.buffer = IF r.position = length THEN <<>>
                                         ELSE IF r.position > 0 THEN SliceFrom(b1, r.position)
                                         ELSE b1],
       raised |-> r.raised,
       resolved |-> (Len(b0) - Len(b1)) + r.position,
       length |-> length,
       ranges |-> r.ranges]

RECURSIVE CountRanges(_, _)
\* how many of the ranges hold buffer index i
CountRanges(ranges, i) ==
  IF ranges = <<>> THEN 0
  ELSE (IF Head(ranges).from <= i /\ i <= Head(ranges).to THEN 1 ELSE 0)
         + CountRanges(Tail(ranges), i)

\* the scan counts of the document after a call that ran on a buffer of the
\* given length, which ends where the fed part of the document ends
Scanned(fedLen, length, ranges) ==
  [k \in 1..Len(doc) |->
     scanned[k] + (IF fedLen - length < k /\ k <= fedLen
                     THEN CountRanges(ranges, k - (fedLen - length) - 1)
                   ELSE 0)]

\* the lines of the documents fed with such a callback
CallLines ==
  { <<"d", "a", "t", "a">>,
    <<"i", "d", ":", "1">>,
    <<>> }

RECURSIVE CallDocsOf(_)
CallDocsOf(n) ==
  IF n = 0 THEN { <<>> }
  ELSE { l \o t \o d : l \in CallLines, t \in { <<LF>>, <<CR, LF>> },
                        d \in CallDocsOf(n - 1) }

CallDocs == UNION { CallDocsOf(n) : n \in 1..(MaxLines + 1) }

\* the caller feeds the next fragment, and the receive-callback returns
\* for every event of the call (raises = FALSE) or raises at the first one
FeedCall(n, raises) ==
  /\ n \in 1..Len(rest)
  /\ LET r == feedCall(parser, SubSeq(rest, 1, n),
                       IF raises THEN Len(parser.out) ELSE -1)
         fedLen == Len(doc) - Len(rest) + n
     IN  /\ r.raised = raises
         /\ parser' = r.p
         /\ resolved' = resolved + r.resolved
         /\ scanned' = Scanned(fedLen, r.length, r.ranges)
  /\ everRaised' = (everRaised \/ raises)
  /\ rest' = SliceFrom(rest, n)
  /\ UNCHANGED <<doc, fresh, fedLines, kvVars, mergeVars, llmVars, asyncVars, raceVars, svcVars>>

(***************************************************************************)
(* KeyValueDeltaParser: parseKeyValueDelta and parseKeyValueDeltas.        *)
(***************************************************************************)
\* [A-Z0-9_]
IsKeyChar(c) ==
  \/ IsDigit(c)
  \/ c = "_"
  \/ c \in {"A", "B", "C", "D", "E", "F", "G", "H", "I", "J", "K", "L", "M",
            "N", "O", "P", "Q", "R", "S", "T", "U", "V", "W", "X", "Y", "Z"}

\* \s of a regular expression, and the characters trim() removes
IsSpace(c) == c \in {" ", LF, CR, "\t"}

RECURSIVE TrimStart(_)
TrimStart(s) == IF s # <<>> /\ IsSpace(Head(s)) THEN TrimStart(Tail(s)) ELSE s

RECURSIVE TrimEnd(_)
TrimEnd(s) ==
  IF s # <<>> /\ IsSpace(s[Len(s)]) THEN TrimEnd(SubSeq(s, 1, Len(s) - 1)) ELSE s

\* String.prototype.trim()
Trim(s) == TrimEnd(TrimStart(s))

StartsWithAt(s, i, t) == i + Len(t) <= Len(s) /\ SubSeq(s, i + 1, i + Len(t)) = t

RECURSIVE KeyEnd(_, _)
\* the index after the longest run of key characters of s that starts at index i
KeyEnd(s, i) == IF i < Len(s) /\ IsKeyChar(s[i + 1]) THEN KeyEnd(s, i + 1) ELSE i

\* ^\$([A-Z0-9_]+):\s  -- the index after the white-space character, or -1
KeyHead(s) ==
  LET e == KeyEnd(s, 1)
  IN  IF /\ CharAt(s, 0) = "$"
         /\ e > 1
         /\ CharAt(s, e) = ":"
         /\ e + 1 < Len(s)
         /\ IsSpace(CharAt(s, e + 1))
      THEN e + 2 ELSE -1

\* (?=\n\$|\n---) at index i
KvLookahead(s, i) ==
  \/ StartsWithAt(s, i, <<LF, "$">>)
  \/ StartsWithAt(s, i, <<LF, "-", "-", "-">>)

RECURSIVE LazyEnd(_, _)
\* ([\s\S]*?)(?=...): the first index >= i at which the lookahead holds, or -1
LazyEnd(s, i) ==
  IF i > Len(s) THEN -1
  ELSE IF KvLookahead(s, i) THEN i
  ELSE LazyEnd(s, i + 1)

NoMatch == [matched |-> FALSE, key |-> <<>>, value |-> <<>>, length |-> 0]

\* kvRegexp.exec(s): key is group 1, value group 2, length the length of match[0]
kvRegexp(s) ==
  LET v == KeyHead(s)
      e == IF v < 0 THEN -1 ELSE LazyEnd(s, v)
  IN  IF v < 0 \/ e < 0 THEN NoMatch
      ELSE [matched |-> TRUE, key |-> Slice(s, 1, KeyEnd(s, 1)),
            value |-> Slice(s, v, e), length |-> e]

\* mutant: the white space and the value text are optional, ^\$([A-Z0-9_]+):\s?(.*)
incompleteKvRegexp_Loose(s) ==
  LET e == KeyEnd(s, 1)
      v == IF IsSpace(CharAt(s, e + 1)) THEN e + 2 ELSE e + 1
  IN  IF ~(CharAt(s, 0) = "$" /\ e > 1 /\ CharAt(s, e) = ":") THEN NoMatch
      ELSE [matched |-> TRUE, key |-> Slice(s, 1, e),
            value |-> SliceFrom(s, v), length |-> Len(s)]

\* incompleteKvRegexp.exec(s): (.+) with the s flag takes the rest, at least
\* one character
incompleteKvRegexp(s) ==
  LET v == KeyHead(s)
  IN  IF v < 0 \/ ~(v < Len(s)) THEN NoMatch
      ELSE [matched |-> TRUE, key |-> Slice(s, 1, KeyEnd(s, 1)),
            value |-> SliceFrom(s, v), length |-> Len(s)]

SEPARATOR == <<"-", "-", "-">>

\* separatorRegexp.exec(s) !== null
separatorRegexp(s) == StartsWithAt(s, 0, SEPARATOR)

RECURSIVE SkipEmptyLines(_)
SkipEmptyLines(buffer) ==
  IF Len(buffer) > 0 /\ buffer[1] = LF THEN SkipEmptyLines(Tail(buffer)) ELSE buffer

KvToken(key, value) ==
  [type |-> "kv", key |-> key, value |-> value, remaining |-> <<>>]
IncompleteKvToken(key, value, remaining) ==
  [type |-> "incomplete_kv", key |-> key, value |-> value, remaining |-> remaining]
SeparatorToken ==
  [type |-> "separator", key |-> <<>>, value |-> <<>>, remaining |-> <<>>]
RemainingToken(remaining) ==
  [type |-> "remaining", key |-> <<>>, value |-> <<>>, remaining |-> remaining]

\* mutant: an empty rest yields no token
KvTerminal_SkipEmpty(buffer) ==
  LET incompleteKvMatch == incompleteKvRegexp(buffer)
  IN  IF incompleteKvMatch.matched
        THEN << IncompleteKvToken(incompleteKvMatch.key,
                                  Trim(incompleteKvMatch.value), buffer) >>
      ELSE IF buffer = <<>> THEN <<>>
      ELSE << RemainingToken(buffer) >>

\* mutant: the value of the preview is not trimmed
KvTerminal_Untrimmed(buffer) ==
  LET incompleteKvMatch == incompleteKvRegexp(buffer)
  IN  IF incompleteKvMatch.matched
        THEN << IncompleteKvToken(incompleteKvMatch.key,
                                  incompleteKvMatch.value, buffer) >>
        ELSE << RemainingToken(buffer) >>

\* the tokens yielded after the main loop of parseKeyValueDelta
KvTerminal(buffer) ==
  LET incompleteKvMatch == incompleteKvRegexp(buffer)
  IN  IF incompleteKvMatch.matched
        THEN << IncompleteKvToken(incompleteKvMatch.key,
                                  Trim(incompleteKvMatch.value), buffer) >>
        ELSE << RemainingToken(buffer) >>

\* mutant: the line feed after the match is not skipped
KvAdvance_Exact(buffer, kvMatch) == SliceFrom(buffer, Min(kvMatch.length, Len(buffer)))

\* the buffer after a key-value match
KvAdvance(buffer, kvMatch) == SliceFrom(buffer, Min(kvMatch.length + 1, Len(buffer)))

RECURSIVE KvLoop(_, _)
\* the main loop of parseKeyValueDelta, then its terminal token
KvLoop(buffer, acc) ==
  IF ~(Len(buffer) > 0) THEN acc \o KvTerminal(buffer)
  ELSE
    LET kvMatch == kvRegexp(buffer)
        acc1    == IF kvMatch.matched
                     THEN Append(acc, KvToken(kvMatch.key, Trim(kvMatch.value)))
                     ELSE acc
        buffer1 == IF kvMatch.matched THEN KvAdvance(buffer, kvMatch) ELSE buffer
        sep     == separatorRegexp(buffer1)
        acc2    == IF sep THEN Append(acc1, SeparatorToken) ELSE acc1
        buffer2 == IF sep THEN SkipEmptyLines(SliceFrom(buffer1, Len(SEPARATOR)))
                   ELSE buffer1
        hasMatch == kvMatch.matched \/ sep
    IN  IF ~hasMatch THEN acc2 \o KvTerminal(buffer2)
        ELSE KvLoop(buffer2, acc2)

\* parseKeyValueDelta(inputBuffer): the sequence of tokens it yields
parseKeyValueDelta(inputBuffer) == KvLoop(SkipEmptyLines(inputBuffer), <<>>)

RECURSIVE KvConsume(_, _, _)
\* mutant: the buffer is not reset to the remaining text of a terminal token
KvConsume_KeepBuffer(tokens, out, buffer) ==
  IF tokens = <<>> THEN [out |-> out, buffer |-> buffer, failed |-> TRUE]
  ELSE
    LET kvDelta == Head(tokens)
    IN  IF kvDelta.type \in {"kv", "separator"}
          THEN KvConsume(Tail(tokens), Append(out, kvDelta), buffer)
        ELSE IF kvDelta.type = "incomplete_kv"
          THEN [out |-> Append(out, kvDelta), buffer |-> buffer, failed |-> FALSE]
        ELSE [out |-> out, buffer |-> buffer, failed |-> FALSE]

\* the for..of loop of parseKeyValueDeltas over the tokens of one call
KvConsume(tokens, out, buffer) ==
  IF tokens = <<>> THEN [out |-> out, buffer |-> buffer, failed |-> TRUE]
  ELSE
    LET kvDelta == Head(tokens)
    IN  IF kvDelta.type \in {"kv", "separator"}
          THEN KvConsume(Tail(tokens), Append(out, kvDelta), buffer)
        ELSE IF kvDelta.type = "incomplete_kv"
          THEN [out |-> Append(out, kvDelta), buffer |-> kvDelta.remaining,
                failed |-> FALSE]
        ELSE [out |-> out, buffer |-> kvDelta.remaining, failed |-> FALSE]

\* The pieces the texts of the model are made of.
KvPieces ==
  { <<"$", "A", ":">>, <<"$", "B", ":">>, <<" ", "v">>, <<LF>>,
    <<"-", "-", "-">> }

RECURSIVE KvDocsOf(_)
KvDocsOf(n) ==
  IF n = 0 THEN { <<>> }
  ELSE { x \o d : x \in KvPieces, d \in KvDocsOf(n - 1) }

KvDocs == UNION { KvDocsOf(n) : n \in 1..MaxPieces }

\* the source of deltas yields the next n characters: one round of the
\* for await loop of parseKeyValueDeltas
KvDelta(n) ==
  /\ ~kvFailed
  /\ n \in 1..Len(kvRest)
  /\ LET buffer == kvBuffer \o SubSeq(kvRest, 1, n)
         tokens == parseKeyValueDelta(buffer)
         r      == KvConsume(tokens, kvOut, buffer)
     IN  /\ kvIn' = buffer
         /\ kvTokens' = tokens
         /\ kvOut' = r.out
         /\ kvBuffer' = r.buffer
         /\ kvFailed' = r.failed
  /\ kvRest' = SliceFrom(kvRest, n)
  /\ UNCHANGED <<kvDoc, kvItems, sseVars, mergeVars, llmVars, feedVars, asyncVars, raceVars, svcVars>>

\* The lines of a key-value document: a key-value line is `$`, the key, `:`,
\* white space (pre) and the value text (raw); a separator line is `---`
\* followed by blanks empty lines.
KvLineItems ==
  [sep : {FALSE}, key : { <<"A">>, <<"B", "_", "1">> }, pre : { <<" ">>, <<LF>> },
   raw : { <<"v">>, <<"v", " ">>, <<"v", LF, "w">> }, blanks : {0}]

SeparatorItems ==
  [sep : {TRUE}, key : { <<>> }, pre : { <<>> }, raw : { <<>> }, blanks : {0, 1}]

\* the documents of n lines: groups of key-value lines, each closed by a
\* separator line; the last group may lack its separator
RECURSIVE KvItemSeqs(_)
KvItemSeqs(n) ==
  IF n = 1 THEN { <<x>> : x \in KvLineItems }
  ELSE LET shorter == KvItemSeqs(n - 1)
       IN  { Append(d, x) : d \in shorter, x \in KvLineItems }
             \cup { Append(d, x) : d \in { e \in shorter : ~e[n - 1].sep },
                                   x \in SeparatorItems }

\* the documents of up to n lines
KvDocuments(n) == UNION { KvItemSeqs(k) : k \in 1..n }

\* key-value lines with an empty value: the key and its colon alone
KvEmptyItems ==
  [sep : {FALSE}, key : { <<"A">>, <<"B", "_", "1">> }, pre : { <<>> },
   raw : { <<>> }, blanks : {0}]

\* the lines of the buffers handed to parseKeyValueDelta: key-value lines with
\* an empty value or with the value v, and separator lines
KvBufferItems ==
  KvEmptyItems
    \cup { x \in KvLineItems : x.pre = <<" ">> /\ x.raw = <<"v">> }
    \cup { x \in SeparatorItems : x.blanks = 0 }

\* the buffers of up to n lines, in any order
KvBuffers(n) == UNION { [1..k -> KvBufferItems] : k \in 1..n }

\* the text of line p of the document d
KvLineText(d, p) ==
  LET x == d[p]
      last == p = Len(d)
  IN  IF x.sep
        THEN SEPARATOR \o (IF last THEN <<>> ELSE <<LF>>)
                       \o [k \in 1..x.blanks |-> LF]
        ELSE <<"$">> \o x.key \o <<":">> \o x.pre \o x.raw
                     \o (IF last THEN <<>> ELSE <<LF>>)

RECURSIVE KvTextFrom(_, _)
KvTextFrom(d, p) == IF p > Len(d) THEN <<>> ELSE KvLineText(d, p) \o KvTextFrom(d, p + 1)

\* the text of the document d
KvText(d) == KvTextFrom(d, 1)

\* the source of deltas yields the whole document as one delta
KvWhole ==
  /\ kvItems # <<>>
  /\ KvDelta(Len(kvRest))

(***************************************************************************)
(* StreamMultiplexer: mergeGenerators of generators.ts.                    *)
(*                                                                         *)
(* Source i is an async generator: it answers its next() calls in the      *)
(* order they were made, each with a value, with completion or with a      *)
(* fault, and with completion once it has ended.  answers[i][r] is its     *)
(* answer to call r.  nextPromisses[i] is the promise of call slotReq[i],  *)
(* or the promise `never` once retired[i].  The model follows the merge    *)
(* from the consumer's first next() to the end of the merge.               *)
(***************************************************************************)
Sources == 1..NSources

\* the answer of source i to its r-th next() call
Answer(i, r) == answers[i][r]

\* source i has ended: it returned or threw
Ended(i) == answers[i] # <<>> /\ answers[i][Len(answers[i])] # "value"

\* what a generator can answer to a next() call
AnswersOf(i) ==
  IF Ended(i) THEN {"done"}
  ELSE (IF Len(answers[i]) < MaxVals THEN {"value"} ELSE {}) \cup {"done", "fault"}

\* nextPromisses[i] is settled
Settled(i) == ~retired[i] /\ slotReq[i] >= 1 /\ Len(answers[i]) >= slotReq[i]

\* Promise.race(nextPromisses) at the time of the call: the reactions of the
\* promises already settled are queued in array order, so the first of them wins;
\* 0 when none is settled yet
RaceAtCall(ret, slot) ==
  LET ready == { i \in Sources : ~ret[i] /\ slot[i] >= 1 /\ Len(answers[i]) >= slot[i] }
  IN  IF ready = {} THEN 0 ELSE CHOOSE i \in ready : \A j \in ready : i <= j

\* mutant: no new call is made after a value was taken
ReissuedReqs_None(r, index) == r

\* mutant: two calls are made after a value was taken
ReissuedReqs_Twice(r, index) == [r EXCEPT ![index] = @ + 2]

\* the calls made on the generators after a value of generators[index] was
\* taken: getNext(generators[index], index)
ReissuedReqs(r, index) == [r EXCEPT ![index] = @ + 1]

\* mutant: nextPromisses[index] keeps the promise the value was taken from
ReplacedSlot_Kept(slot, r, index) == slot

\* nextPromisses[index] = getNext(generators[index], index): the slot holds the
\* promise of the call just made
ReplacedSlot(slot, r, index) == [slot EXCEPT ![index] = r[index]]

\* mutant: return() on every generator
Sweep_All(ret, sent) == [i \in Sources |-> sent[i] + 1]

\* the finally block: return() on every generator whose promise is not never
Sweep(ret, sent) == [i \in Sources |-> IF ~ret[i] THEN sent[i] + 1 ELSE sent[i]]

RemoveFrom(seq, i) == SelectSeq(seq, LAMBDA x : x # i)

MergeLive == mpc \in {"race", "yield"}

\* the consumer's first next(): the body runs up to the first await of the race
MergeStart ==
  /\ mpc = "init"
  /\ reqs' = [i \in Sources |-> 1]
  /\ slotReq' = [i \in Sources |-> 1]
  /\ count' = NSources
  /\ raceWinner' = RaceAtCall(retired, slotReq')
  /\ mpc' = "race"
  /\ UNCHANGED <<svcVars, raceVars, asyncVars, feedVars, llmVars, sseVars, kvVars, answers, retired, consumed, arrived, yielded,
                 lateYield, staleYield, retSent, error>>

\* source i answers its oldest unanswered next() call
SourceSettle(i) ==
  /\ MergeLive
  /\ Len(answers[i]) < reqs[i]
  /\ \E a \in AnswersOf(i) : answers' = [answers EXCEPT ![i] = Append(@, a)]
  /\ arrived' = IF ~retired[i] /\ slotReq[i] = Len(answers[i]) + 1
                  THEN Append(arrived, i) ELSE arrived
  /\ raceWinner' = IF mpc = "race" /\ raceWinner = 0 /\ ~retired[i]
                      /\ slotReq[i] = Len(answers[i]) + 1
                     THEN i ELSE raceWinner
  /\ UNCHANGED <<svcVars, raceVars, asyncVars, feedVars, llmVars, sseVars, kvVars, reqs, slotReq, retired, consumed, count, mpc,
                 yielded, lateYield, staleYield, retSent, error>>

\* a value of another source whose promise settled before that of index waits
EarlierValueWaits(index) ==
  \E p \in 1..Len(arrived) :
    /\ arrived[p] # index
    /\ Answer(arrived[p], slotReq[arrived[p]]) = "value"
    /\ \E q \in (p + 1)..Len(arrived) : arrived[q] = index

\* a fault of another source settled before the promise of index did
SettledAfterFault(index) ==
  \E p \in 1..Len(arrived) :
    /\ arrived[p] # index
    /\ Answer(arrived[p], slotReq[arrived[p]]) = "fault"
    /\ \E q \in (p + 1)..Len(arrived) : arrived[q] = index

\* the merge resumes from `await Promise.race(nextPromisses)` and runs to its
\* next suspension point or to its end
MergeResume ==
  /\ mpc = "race"
  /\ raceWinner # 0
  /\ LET index  == raceWinner
         result == Answer(index, slotReq[index])
     IN  /\ consumed' = [consumed EXCEPT ![index] = @ + 1]
         /\ arrived' = RemoveFrom(arrived, index)
         /\ CASE result = "done" ->
                  /\ retired' = [retired EXCEPT ![index] = TRUE]
                  /\ count' = count - 1
                  /\ IF count' > 0
                       THEN /\ mpc' = "race"
                            /\ raceWinner' = RaceAtCall(retired', slotReq)
                       ELSE /\ mpc' = "done"
                            /\ raceWinner' = 0
                  /\ retSent' = IF count' > 0 THEN retSent ELSE Sweep(retired', retSent)
                  /\ UNCHANGED <<reqs, slotReq, yielded, lateYield, staleYield, error>>
              [] result = "value" ->
                  /\ reqs' = ReissuedReqs(reqs, index)
                  /\ slotReq' = ReplacedSlot(slotReq, reqs', index)
                  /\ yielded' = [yielded EXCEPT ![index] = Append(@, slotReq[index])]
                  /\ lateYield' = (lateYield \/ EarlierValueWaits(index))
                  /\ staleYield' = (staleYield \/ SettledAfterFault(index))
                  /\ mpc' = "yield"
                  /\ raceWinner' = 0
                  /\ UNCHANGED <<retired, count, retSent, error>>
              [] result = "fault" ->
                  /\ retSent' = Sweep(retired, retSent)
                  /\ error' = index
                  /\ mpc' = "faulted"
                  /\ raceWinner' = 0
                  /\ UNCHANGED <<reqs, slotReq, retired, count, yielded, lateYield, staleYield>>
  /\ UNCHANGED <<svcVars, raceVars, asyncVars, feedVars, llmVars, sseVars, kvVars, answers>>

\* the consumer calls next() while the merge is suspended at its yield
ConsumerNext ==
  /\ mpc = "yield"
  /\ IF count > 0
       THEN /\ mpc' = "race"
            /\ raceWinner' = RaceAtCall(retired, slotReq)
            /\ UNCHANGED retSent
       ELSE /\ mpc' = "done"
            /\ raceWinner' = 0
            /\ retSent' = Sweep(retired, retSent)
  /\ UNCHANGED <<svcVars, raceVars, asyncVars, feedVars, llmVars, sseVars, kvVars, answers, reqs, slotReq, retired, consumed, count,
                 arrived, yielded, lateYield, staleYield, error>>

\* the consumer stops early: return() on the merge suspended at its yield
ConsumerReturn ==
  /\ mpc = "yield"
  /\ retSent' = Sweep(retired, retSent)
  /\ mpc' = "returned"
  /\ UNCHANGED <<svcVars, raceVars, asyncVars, feedVars, llmVars, sseVars, kvVars, answers, reqs, slotReq, retired, consumed, count,
                 arrived, raceWinner, yielded, lateYield, staleYield, error>>

\* an exception of the consumer unwinds through the merge: throw() on the
\* merge suspended at its yield
ConsumerThrow ==
  /\ mpc = "yield"
  /\ retSent' = Sweep(retired, retSent)
  /\ mpc' = "thrown"
  /\ UNCHANGED <<svcVars, raceVars, asyncVars, feedVars, llmVars, sseVars, kvVars, answers, reqs, slotReq, retired, consumed, count,
                 arrived, raceWinner, yielded, lateYield, staleYield, error>>

(***************************************************************************)
(* mergeGenerators over sources that never run out.  A source may answer   *)
(* every next() call with a value, so the history of answers is not kept:  *)
(* nextPromisses[i] is the state of the promise in slot i, which is all    *)
(* the race and the loop read.                                             *)
(***************************************************************************)
SettledStates == {"value", "done", "fault"}

\* Promise.race(nextPromisses) at the time of the call: the lowest index
\* whose promise is settled, 0 when none is
FirstSettled(np) ==
  LET ready == { i \in Sources : np[i] \in SettledStates }
  IN  IF ready = {} THEN 0 ELSE CHOOSE i \in ready : \A j \in ready : i <= j

\* the finally block: return() on every generator whose promise is not never
FinallySweep(np) == [i \in Sources |-> np[i] # "never"]

\* the values of other sources yielded while the settled value of j waited
Overtaken(o, np, index) ==
  [j \in Sources |->
     IF j = index THEN 0
     ELSE IF np[j] = "value" /\ o[j] < MaxVals THEN o[j] + 1
     ELSE o[j]]

\* the consumer's first next(): one pull per source, then the race
RaceStart ==
  /\ mergePos = "init"
  /\ nextPromisses' = [i \in Sources |-> "pending"]
  /\ mergePos' = "race"
  /\ winner' = 0
  /\ UNCHANGED <<lastIndex, overtaken, returned>>
  /\ UNCHANGED <<sseVars, kvVars, mergeVars, llmVars, feedVars, asyncVars, svcVars>>

\* the pending pull of source i settles: with a value, with completion or
\* with a fault
PullSettle(i) ==
  /\ mergePos \in {"race", "yield"}
  /\ nextPromisses[i] = "pending"
  /\ \E a \in SettledStates : nextPromisses' = [nextPromisses EXCEPT ![i] = a]
  /\ winner' = IF mergePos = "race" /\ winner = 0 THEN i ELSE winner
  /\ UNCHANGED <<mergePos, lastIndex, overtaken, returned>>
  /\ UNCHANGED <<sseVars, kvVars, mergeVars, llmVars, feedVars, asyncVars, svcVars>>

\* the merge resumes from `await Promise.race(nextPromisses)` and runs to its
\* next suspension point or to its end
RaceResume ==
  /\ mergePos = "race"
  /\ winner # 0
  /\ LET index  == winner
         result == nextPromisses[index]
     IN  CASE result = "done" ->
                /\ nextPromisses' = [nextPromisses EXCEPT ![index] = "never"]
                /\ IF \E i \in Sources : nextPromisses'[i] # "never"
                     THEN /\ mergePos' = "race"
                          /\ winner' = FirstSettled(nextPromisses')
                          /\ UNCHANGED returned
                     ELSE /\ mergePos' = "done"
                          /\ winner' = 0
                          /\ returned' = FinallySweep(nextPromisses')
                /\ UNCHANGED <<lastIndex, overtaken>>
            [] result = "value" ->
                /\ nextPromisses' = [nextPromisses EXCEPT ![index] = "pending"]
                /\ lastIndex' = index
                /\ overtaken' = Overtaken(overtaken, nextPromisses, index)
                /\ mergePos' = "yield"
                /\ winner' = 0
                /\ UNCHANGED returned
            [] result = "fault" ->
                /\ returned' = FinallySweep(nextPromisses)
                /\ mergePos' = "faulted"
                /\ winner' = 0
                /\ UNCHANGED <<nextPromisses, lastIndex, overtaken>>
  /\ UNCHANGED <<sseVars, kvVars, mergeVars, llmVars, feedVars, asyncVars, svcVars>>

\* the consumer calls next() while the merge is suspended at its yield
ConsumerPull ==
  /\ mergePos = "yield"
  /\ mergePos' = "race"
  /\ winner' = FirstSettled(nextPromisses)
  /\ UNCHANGED <<nextPromisses, lastIndex, overtaken, returned>>
  /\ UNCHANGED <<sseVars, kvVars, mergeVars, llmVars, feedVars, asyncVars, svcVars>>

(***************************************************************************)
(* generatorToResponse and callbackToResponse.  Both run the same loop in   *)
(* the start() of a TransformStream: one chunk is enqueued per delta, then  *)
(* the end frame and terminate(), or the error frame in the catch block.    *)
(* Texts are sequences of characters.                                       *)
(***************************************************************************)
DefaultPrefix == <<"d", "a", "t", "a", ":", " ">>

DoneText == <<"[", "D", "O", "N", "E", "]">>

\* `${dataPrefix}${delta}\n\n`
DeltaFrame(prefix, delta) == prefix \o delta \o <<LF, LF>>

\* `data: [DONE]\n\n`
DoneFrame == <<"d", "a", "t", "a", ":", " ">> \o DoneText \o <<LF, LF>>

\* `error: server error\n\n`
ErrorFrame ==
  <<"e", "r", "r", "o", "r", ":", " ", "s", "e", "r", "v", "e", "r", " ",
    "e", "r", "r", "o", "r", LF, LF>>

\* the deltas of a producer and the prefixes of a caller
ProducerDeltas == { <<"a">>, <<>>, DoneText }

Prefixes == { DefaultPrefix, <<"x", ":">> }

\* the next delta arrives: `for await (const delta of deltas)`, or nextDelta()
\* gives a string
WriteDelta ==
  /\ wpc = "loop"
  /\ taken < Len(deltas)
  /\ taken' = taken + 1
  /\ frames' = Append(frames, DeltaFrame(dataPrefix, deltas[taken + 1]))
  /\ UNCHANGED <<respKind, dataPrefix, deltas, ending, wpc>>
  /\ UNCHANGED <<sseVars, kvVars, mergeVars, llmVars, feedVars, asyncVars, raceVars, exceptResp>>

\* the producer ends (the generator returns, nextDelta() gives null): the
\* end frame is enqueued and the stream terminated
WriteDone ==
  /\ wpc = "loop"
  /\ taken = Len(deltas)
  /\ ending = "end"
  /\ frames' = Append(frames, DoneFrame)
  /\ wpc' = "terminated"
  /\ UNCHANGED <<respKind, dataPrefix, deltas, ending, taken>>
  /\ UNCHANGED <<sseVars, kvVars, mergeVars, llmVars, feedVars, asyncVars, raceVars, exceptResp>>

\* the producer faults: the catch block enqueues the error frame, and start()
\* returns with the stream open
WriteError ==
  /\ wpc = "loop"
  /\ taken = Len(deltas)
  /\ ending = "fault"
  /\ frames' = Append(frames, ErrorFrame)
  /\ wpc' = "caught"
  /\ UNCHANGED <<respKind, dataPrefix, deltas, ending, taken>>
  /\ UNCHANGED <<sseVars, kvVars, mergeVars, llmVars, feedVars, asyncVars, raceVars, exceptResp>>

\* after the catch block the transform passes on the one chunk of its
\* source, which has no bytes, and closes with it
PassThrough ==
  /\ wpc = "caught"
  /\ frames' = Append(frames, <<>>)
  /\ wpc' = "closed"
  /\ UNCHANGED <<respKind, dataPrefix, deltas, ending, taken>>
  /\ UNCHANGED <<sseVars, kvVars, mergeVars, llmVars, feedVars, asyncVars, raceVars, exceptResp>>

(***************************************************************************)
(* SlidingWindowRateLimiter.  The clock is Date.now(), in ticks; a call of *)
(* waitForAvailability runs one attempt of its loop without interruption   *)
(* and then returns or waits in sleepSec, from which it may come back at   *)
(* any time to make its next attempt.                                      *)
(***************************************************************************)
Callers == 1..MaxCallers

RECURSIVE removeOldTimestamps(_, _)
\* removeOldTimestamps(): the queue without its leading entries at or before
\* the cutoff
removeOldTimestamps(ts, cutoffTime) ==
  IF Len(ts) > 0 /\ ts[1] <= cutoffTime
    THEN removeOldTimestamps(Tail(ts), cutoffTime)
    ELSE ts

\* mutant: a full queue still has room for one
HasRoom_Inclusive(currentQueueSize, max) == currentQueueSize <= max

\* currentQueueSize < this.maxQPW
HasRoom(currentQueueSize, max) == currentQueueSize < max

\* one attempt of the loop of waitForAvailability by caller c
Attempt(c) ==
  LET ts == removeOldTimestamps(requestTimestamps, clock - windowMs)
  IN  IF HasRoom(Len(ts), maxQPW)
        THEN /\ requestTimestamps' = Append(ts, clock)
             /\ admissions' = Append(admissions, clock)
             /\ sleeping' = [sleeping EXCEPT ![c] = FALSE]
        ELSE /\ requestTimestamps' = ts
             /\ sleeping' = [sleeping EXCEPT ![c] = TRUE]
             /\ UNCHANGED admissions

\* caller c calls waitForAvailability()
WaitForAvailability(c) ==
  /\ maxQPW > 0
  /\ ~sleeping[c]
  /\ Attempt(c)
  /\ UNCHANGED <<maxQPW, windowMs, clock>>
  /\ UNCHANGED <<sseVars, kvVars, mergeVars, llmVars, feedVars, asyncVars, raceVars, exceptLim>>

\* the sleepSec of caller c is over
Wake(c) ==
  /\ sleeping[c]
  /\ Attempt(c)
  /\ UNCHANGED <<maxQPW, windowMs, clock>>
  /\ UNCHANGED <<sseVars, kvVars, mergeVars, llmVars, feedVars, asyncVars, raceVars, exceptLim>>

\* time passes
Tick ==
  /\ maxQPW > 0
  /\ clock < MaxClock
  /\ clock' = clock + 1
  /\ UNCHANGED <<maxQPW, windowMs, requestTimestamps, sleeping, admissions>>
  /\ UNCHANGED <<sseVars, kvVars, mergeVars, llmVars, feedVars, asyncVars, raceVars, exceptLim>>

(***************************************************************************)
(* rateLimit: numWorkers async functions draw tasks from one iterator.     *)
(* A worker runs from the settling of the task it awaits to its next       *)
(* await, or to its end.                                                   *)
(***************************************************************************)
\* `for (const task of taskIter) { await task(); }` from the top of the
\* loop: worker w takes the next task and calls it, or ends with the
\* iterator; the result is the iterator, the workers and the call counts
WorkerLoop(it, ws, st, w) ==
  IF it < Len(tasks)
    THEN [taskIter |-> it + 1,
          workers  |-> [ws EXCEPT ![w] = [pc |-> "awaits", task |-> it + 1]],
          started  |-> [st EXCEPT ![it + 1] = @ + 1]]
    ELSE [taskIter |-> it, workers |-> [ws EXCEPT ![w] = [pc |-> "done", task |-> 0]], started |-> st]

RECURSIVE StartFrom(_, _)
\* the map callback creates the workers in order; each runs to its first await
StartFrom(r, w) ==
  IF w > numWorkers THEN r
  ELSE StartFrom(WorkerLoop(r.taskIter, r.workers, r.started, w), w + 1)

\* rateLimit is called: the workers start, and the call waits in allSettled
StartWorkers ==
  /\ poolPc = "idle"
  /\ numWorkers > 0
  /\ LET r == StartFrom([taskIter |-> taskIter, workers |-> workers,
                          started |-> started], 1)
     IN  /\ taskIter' = r.taskIter
         /\ workers' = r.workers
         /\ started' = r.started
  /\ poolPc' = "called"
  /\ UNCHANGED <<numWorkers, tasks>>
  /\ UNCHANGED <<sseVars, kvVars, mergeVars, llmVars, feedVars, asyncVars, raceVars, exceptPool>>

\* the task worker w awaits settles: fulfilled, the worker goes round its
\* loop; rejected, the await throws and the worker's promise rejects
TaskSettles(w) ==
  /\ poolPc = "called"
  /\ workers[w].pc = "awaits"
  /\ IF tasks[workers[w].task] = "ok"
       THEN LET r == WorkerLoop(taskIter, workers, started, w)
            IN  /\ taskIter' = r.taskIter
                /\ workers' = r.workers
                /\ started' = r.started
       ELSE /\ workers' = [workers EXCEPT ![w] = [pc |-> "rejected", task |-> 0]]
            /\ UNCHANGED <<taskIter, started>>
  /\ UNCHANGED <<numWorkers, tasks, poolPc>>
  /\ UNCHANGED <<sseVars, kvVars, mergeVars, llmVars, feedVars, asyncVars, raceVars, exceptPool>>

\* Promise.allSettled(workers) resolves: rateLimit throws when a worker
\* rejected and returns otherwise
PoolSettles ==
  /\ poolPc = "called"
  /\ \A w \in 1..numWorkers : workers[w].pc \in {"done", "rejected"}
  /\ poolPc' = IF \E w \in 1..numWorkers : workers[w].pc = "rejected"
                 THEN "rejected" ELSE "resolved"
  /\ UNCHANGED <<numWorkers, tasks, taskIter, workers, started>>
  /\ UNCHANGED <<sseVars, kvVars, mergeVars, llmVars, feedVars, asyncVars, raceVars, exceptPool>>

(***************************************************************************)
(* getGoogleAccessToken.  A call runs from its start, or from the settling *)
(* of the cached promise it awaits, to its next await or to its return.    *)
(* A token is "fresh" while it is valid for ten seconds more, "expired"    *)
(* after that.  Scopes and audiences are numbers.                          *)
(***************************************************************************)
\* params.scopes.toSorted(), params.audiences.toSorted()
toSorted(s) == SortSeq(s, LAMBDA a, b : a < b)

\* makeAccessTokenCacheKey(params)
makeAccessTokenCacheKey(params) ==
  [audiences |-> toSorted(params.audiences), scopes |-> toSorted(params.scopes)]

\* the parameters of the callers: one pair in both orders of its scopes, and
\* a pair with other scopes
TokenParams ==
  [scopes : { <<1, 2>>, <<2, 1>>, <<1>> }, audiences : { <<3>> }]

CacheKeys == { makeAccessTokenCacheKey(params) : params \in TokenParams }

IdleGet == [pc |-> "idle", key |-> <<>>, promise |-> 0]

\* fetchGoogleAccessToken(params) is called and its promise stored under key
StartFetch(c, key) ==
  /\ Len(fetches) < MaxFetches
  /\ fetches' = Append(fetches, [key |-> key, state |-> "pending"])
  /\ accessTokenCache' = [accessTokenCache EXCEPT ![key] = Len(fetches) + 1]
  /\ getCalls' = [getCalls EXCEPT ![c] = IdleGet]

\* caller c calls getGoogleAccessToken(params): with a promise in the cache
\* it awaits that promise, without one it fetches
GetToken(c, params) ==
  /\ getCalls[c].pc = "idle"
  /\ LET key == makeAccessTokenCacheKey(params)
     IN  IF accessTokenCache[key] # 0
           THEN /\ getCalls' = [getCalls EXCEPT ![c] =
                                  [pc |-> "awaits", key |-> key,
                                   promise |-> accessTokenCache[key]]]
                /\ UNCHANGED <<accessTokenCache, fetches>>
           ELSE StartFetch(c, key)
  /\ UNCHANGED <<sseVars, kvVars, mergeVars, llmVars, feedVars, asyncVars, raceVars, exceptTok>>

\* the promise caller c awaits has settled and the call goes on: it returns
\* a fresh token, and fetches when the token has expired or the promise
\* rejected
AwaitResumes(c) ==
  /\ getCalls[c].pc = "awaits"
  /\ fetches[getCalls[c].promise].state # "pending"
  /\ IF fetches[getCalls[c].promise].state = "fresh"
       THEN /\ getCalls' = [getCalls EXCEPT ![c] = IdleGet]
            /\ UNCHANGED <<accessTokenCache, fetches>>
       ELSE StartFetch(c, getCalls[c].key)
  /\ UNCHANGED <<sseVars, kvVars, mergeVars, llmVars, feedVars, asyncVars, raceVars, exceptTok>>

\* a fetch settles: with a token or with an error
FetchSettles(p) ==
  /\ p \in 1..Len(fetches)
  /\ fetches[p].state = "pending"
  /\ \E r \in {"fresh", "failed"} : fetches' = [fetches EXCEPT ![p].state = r]
  /\ UNCHANGED <<accessTokenCache, getCalls>>
  /\ UNCHANGED <<sseVars, kvVars, mergeVars, llmVars, feedVars, asyncVars, raceVars, exceptTok>>

\* time passes: a token has less than ten seconds left
TokenExpires(p) ==
  /\ p \in 1..Len(fetches)
  /\ fetches[p].state = "fresh"
  /\ fetches' = [fetches EXCEPT ![p].state = "expired"]
  /\ UNCHANGED <<accessTokenCache, getCalls>>
  /\ UNCHANGED <<sseVars, kvVars, mergeVars, llmVars, feedVars, asyncVars, raceVars, exceptTok>>

\* `if (i >= 10)`: the value of i at which a segment task gives up
LastRetry == 10

(***************************************************************************)
(* tts.  Every segment has a task that loops over ttsSegment, the write of *)
(* the speech file and getAudioDetails until all three succeed, or until   *)
(* one fails with i at LastRetry.  The body awaits the tasks in order and  *)
(* joins the files; the finally block deletes the files named in           *)
(* filesToDelete.  Of the temporary files the model keeps the speech files *)
(* of the segment tasks.                                                   *)
(***************************************************************************)
Segments == 1..numSegments

\* a task in its first attempt, at `await ttsSegment(...)`
FirstAttempt == [pc |-> "tts", i |-> 0, attempts |-> 1, rewrites |-> 0]

\* the catch block of the task's loop: it gives up with i at LastRetry and
\* goes round the loop otherwise
Retry(t) ==
  IF t.i >= LastRetry
    THEN [t EXCEPT !.pc = "failed"]
    ELSE [t EXCEPT !.pc = "tts", !.i = @ + 1, !.attempts = @ + 1]

\* tts is called: the tasks start, and the body awaits the first of them
TtsCall ==
  /\ ttsPc = "idle"
  /\ numSegments > 0
  /\ segTasks' = [s \in Segments |-> FirstAttempt]
  /\ ttsPc' = "awaits"
  /\ awaited' = 1
  /\ UNCHANGED <<numSegments, filesToDelete, onDisk, deleteIndex, ttsOutcome>>
  /\ UNCHANGED <<sseVars, kvVars, mergeVars, llmVars, feedVars, asyncVars, raceVars, exceptTts>>

\* ttsSegment of task s settles
SegmentTts(s, ok) ==
  /\ segTasks[s].pc = "tts"
  /\ segTasks' = [segTasks EXCEPT ![s] = IF ok THEN [@ EXCEPT !.pc = "writes"]
                                           ELSE Retry(@)]
  /\ UNCHANGED <<numSegments, filesToDelete, onDisk, ttsPc, awaited, deleteIndex,
                 ttsOutcome>>
  /\ UNCHANGED <<sseVars, kvVars, mergeVars, llmVars, feedVars, asyncVars, raceVars, exceptTts>>

\* writeUint8ArrayToTempFile of task s settles: written, the file exists and
\* its name is pushed on filesToDelete
SegmentWrite(s, ok) ==
  /\ segTasks[s].pc = "writes"
  /\ IF ok
       THEN /\ onDisk' = onDisk \cup {s}
            /\ filesToDelete' = Append(filesToDelete, s)
            /\ segTasks' = [segTasks EXCEPT ![s].pc = "details"]
       ELSE /\ segTasks' = [segTasks EXCEPT ![s] = Retry(@)]
            /\ UNCHANGED <<onDisk, filesToDelete>>
  /\ UNCHANGED <<numSegments, ttsPc, awaited, deleteIndex, ttsOutcome>>
  /\ UNCHANGED <<sseVars, kvVars, mergeVars, llmVars, feedVars, asyncVars, raceVars, exceptTts>>

\* getAudioDetails of task s settles: the task returns, or goes round again
SegmentDetails(s, ok) ==
  /\ segTasks[s].pc = "details"
  /\ ~ok => segTasks[s].rewrites < MaxRewrites
  /\ segTasks' = [segTasks EXCEPT ![s] =
                    IF ok THEN [@ EXCEPT !.pc = "done"]
                    ELSE Retry([@ EXCEPT !.rewrites = @ + 1])]
  /\ UNCHANGED <<numSegments, filesToDelete, onDisk, ttsPc, awaited, deleteIndex,
                 ttsOutcome>>
  /\ UNCHANGED <<sseVars, kvVars, mergeVars, llmVars, feedVars, asyncVars, raceVars, exceptTts>>

\* the task the body awaits has returned: the body makes the pauses of the
\* segment (ok: createSilentAudio succeeds) and awaits the next task, or
\* goes on to join the files
TtsTakes(ok) ==
  /\ ttsPc = "awaits"
  /\ segTasks[awaited].pc = "done"
  /\ IF ~ok
       THEN /\ ttsPc' = "finally"
            /\ ttsOutcome' = "error"
            /\ UNCHANGED awaited
       ELSE /\ ttsOutcome' = ttsOutcome
            /\ IF awaited < numSegments
                 THEN /\ awaited' = awaited + 1
                      /\ UNCHANGED ttsPc
                 ELSE /\ ttsPc' = "joins"
                      /\ UNCHANGED awaited
  /\ UNCHANGED <<numSegments, segTasks, filesToDelete, onDisk, deleteIndex>>
  /\ UNCHANGED <<sseVars, kvVars, mergeVars, llmVars, feedVars, asyncVars, raceVars, exceptTts>>

\* the task the body awaits has given up: the await throws and tts unwinds
TtsRejected ==
  /\ ttsPc = "awaits"
  /\ segTasks[awaited].pc = "failed"
  /\ ttsPc' = "finally"
  /\ ttsOutcome' = "error"
  /\ UNCHANGED <<numSegments, segTasks, filesToDelete, onDisk, awaited, deleteIndex>>
  /\ UNCHANGED <<sseVars, kvVars, mergeVars, llmVars, feedVars, asyncVars, raceVars, exceptTts>>

\* the list file, concatAudio and the reads of the joined file
TtsJoins(ok) ==
  /\ ttsPc = "joins"
  /\ ttsPc' = "finally"
  /\ ttsOutcome' = IF ok THEN "result" ELSE "error"
  /\ UNCHANGED <<numSegments, segTasks, filesToDelete, onDisk, awaited, deleteIndex>>
  /\ UNCHANGED <<sseVars, kvVars, mergeVars, llmVars, feedVars, asyncVars, raceVars, exceptTts>>

\* the finally block deletes the next file of filesToDelete; a file that is
\* gone makes deleteTempFile fail, which is caught
TtsDeletes ==
  /\ ttsPc = "finally"
  /\ deleteIndex < Len(filesToDelete)
  /\ onDisk' = onDisk \ {filesToDelete[deleteIndex + 1]}
  /\ deleteIndex' = deleteIndex + 1
  /\ UNCHANGED <<numSegments, segTasks, filesToDelete, ttsPc, awaited, ttsOutcome>>
  /\ UNCHANGED <<sseVars, kvVars, mergeVars, llmVars, feedVars, asyncVars, raceVars, exceptTts>>

\* the finally block has visited every entry: tts ends
TtsEnds ==
  /\ ttsPc = "finally"
  /\ deleteIndex = Len(filesToDelete)
  /\ ttsPc' = "ended"
  /\ UNCHANGED <<numSegments, segTasks, filesToDelete, onDisk, awaited, deleteIndex,
                 ttsOutcome>>
  /\ UNCHANGED <<sseVars, kvVars, mergeVars, llmVars, feedVars, asyncVars, raceVars, exceptTts>>

(***************************************************************************)
(* feed as an async function.  A call runs until its next await: the await *)
(* of onParse in the blank-line branch of parseEventStreamLine ("inner"),  *)
(* or the await of parseEventStreamLine in the loop of feed ("outer").     *)
(* buffer, startingPosition, startingFieldLength and the pending event are *)
(* variables of the closure, shared by the calls; length, position and     *)
(* discardTrailingNewline are locals of each call.                         *)
(***************************************************************************)
CallIds == 1..MaxCalls

IdleCall == [pc |-> "idle", length |-> 0, position |-> 0, discard |-> FALSE,
             lineLength |-> 0]

NoCalls == [c \in CallIds |-> IdleCall]

Suspended(c) == c.pc \in {"inner", "outer"}

\* the statements after the loop of feed
CallEnd(p, c) ==
  [p |-> [p EXCEPT !.buffer = IF c.position = c.length THEN <<>>
                              ELSE IF c.position > 0 THEN SliceFrom(p.buffer, c.position)
                              ELSE p.buffer],
   c |-> [c EXCEPT !.pc = "done"]]

\* the loop of feed from its top to the next await, or to the end of the call
CallLoop(p, c) ==
  IF ~(c.position < c.length) THEN CallEnd(p, c)
  ELSE
    LET pos == IF c.discard /\ CharAt(p.buffer, c.position) = LF
                 THEN c.position + 1 ELSE c.position
        s   == ScanLine(p.buffer, ScanStart(p, pos), c.length, pos, -1,
                        p.startingFieldLength, FALSE)
    IN  IF s.lineLength < 0
          THEN CallEnd([p EXCEPT !.startingPosition = c.length - pos,
                                 !.startingFieldLength = s.fieldLength],
                       [c EXCEPT !.position = pos])
        ELSE
          LET p1 == [p EXCEPT !.startingPosition = 0, !.startingFieldLength = -1]
              c1 == [c EXCEPT !.position = pos, !.discard = s.discard,
                              !.lineLength = s.lineLength]
          IN  IF s.lineLength = 0 /\ Len(p1.data) > 0
                THEN [p |-> [p1 EXCEPT !.out = BlankLine(p1).out],
                      c |-> [c1 EXCEPT !.pc = "inner"]]
                ELSE [p |-> parseEventStreamLine(p1, p.buffer, pos, s.fieldLength,
                                                 s.lineLength),
                      c |-> [c1 EXCEPT !.pc = "outer"]]

\* feed(chunk) is called: the call runs to its first await or to its end
Begin(id, n) ==
  /\ calls[id].pc = "idle"
  /\ \A j \in CallIds : j < id => calls[j].pc # "idle"
  /\ n \in 1..Len(rest)
  /\ LET chunk == SubSeq(rest, 1, n)
         b0 == IF parser.buffer # <<>> THEN parser.buffer \o chunk ELSE chunk
         b1 == StripBom(parser, b0)
         r  == CallLoop([parser EXCEPT !.buffer = b1, !.isFirstChunk = FALSE],
                        [IdleCall EXCEPT !.length = Len(b1)])
     IN  /\ parser' = r.p
         /\ calls' = [calls EXCEPT ![id] = r.c]
         /\ serial' = feed(serial, chunk)
  /\ overlapped' = (overlapped \/ \E j \in CallIds : Suspended(calls[j]))
  /\ rest' = SliceFrom(rest, n)
  /\ UNCHANGED <<doc, fresh, fedLines, kvVars, mergeVars, llmVars, feedVars, raceVars, svcVars>>

\* a call suspended at the await of onParse goes on: the pending event is
\* cleared and parseEventStreamLine returns
ResumeInner(id) ==
  /\ calls[id].pc = "inner"
  /\ parser' = [parser EXCEPT !.data = <<>>, !.eventId = Undefined,
                               !.eventName = Undefined]
  /\ calls' = [calls EXCEPT ![id].pc = "outer"]
  /\ UNCHANGED <<doc, rest, fresh, fedLines, serial, overlapped>>
  /\ UNCHANGED <<kvVars, mergeVars, llmVars, feedVars, raceVars, svcVars>>

\* a call suspended at the await of parseEventStreamLine goes on: position
\* moves past the line and the loop runs to the next await or to its end
ResumeOuter(id) ==
  /\ calls[id].pc = "outer"
  /\ LET c == calls[id]
         r == CallLoop(parser, [c EXCEPT !.position = c.position + c.lineLength + 1])
     IN  /\ parser' = r.p
         /\ calls' = [calls EXCEPT ![id] = r.c]
  /\ UNCHANGED <<doc, rest, fresh, fedLines, serial, overlapped>>
  /\ UNCHANGED <<kvVars, mergeVars, llmVars, feedVars, raceVars, svcVars>>

\* reset() is called while a feed call is suspended
ResetDuring ==
  /\ \E j \in CallIds : Suspended(calls[j])
  /\ ~overlapped
  /\ parser' = reset(parser)
  /\ serial' = reset(serial)
  /\ overlapped' = TRUE
  /\ UNCHANGED <<doc, rest, fresh, fedLines, calls>>
  /\ UNCHANGED <<kvVars, mergeVars, llmVars, feedVars, raceVars, svcVars>>

\* every call that began has returned
AllReturned == \A j \in CallIds : calls[j].pc \in {"idle", "done"}

(***************************************************************************)
(* Normalizers: parseOpenAiDelta, parseXaiDelta, parseGoogleLlmDelta and   *)
(* parseAnthropicLlmDelta.  A payload is the JSON text of one event; the   *)
(* model keeps of it what the normalizers read for the usage accumulator:  *)
(* whether it passes JSON.parse and the schema (ok), its type (Anthropic), *)
(* its model name, its token counts and the length of choices.  Absent     *)
(* numbers are -1, an absent model name is 0.                              *)
(***************************************************************************)
Absent == -1
NoModel == 0

\* const llmUsage: LLMUsage = {}
NoUsage == [responseModel |-> NoModel, promptTokens |-> Absent,
            completionTokens |-> Absent]

Payload(ok, type, model, prompt, completion, choices) ==
  [ok |-> ok, type |-> type, model |-> model, prompt |-> prompt,
   completion |-> completion, choices |-> choices]

ModelNames == {1, 2}
PromptCounts == {3, 4}
CompletionCounts == {5, 6}

\* text that is not a chunk of the provider
BadPayload == Payload(FALSE, "", NoModel, Absent, Absent, 0)

\* chunks of the OpenAI and xAI schema: usage is absent (or null) or holds
\* both counts; choices holds at most one choice
OpenAiPayloads ==
  { Payload(TRUE, "chunk", m, Absent, Absent, c) : m \in ModelNames, c \in {0, 1} }
    \cup { Payload(TRUE, "chunk", m, x[1], x[2], c) :
             m \in ModelNames, x \in PromptCounts \X CompletionCounts, c \in {0, 1} }
    \cup { BadPayload }

\* chunks of the Google schema: usageMetadata is absent or holds any of the
\* two counts; exactly one candidate
GooglePayloads ==
  { Payload(TRUE, "chunk", m, x[1], x[2], 1) :
      m \in ModelNames,
      x \in (PromptCounts \cup {Absent}) \X (CompletionCounts \cup {Absent}) }
    \cup { BadPayload }

\* events of the Anthropic schema
AnthropicPayloads ==
  { Payload(TRUE, "message_start", m, x[1], x[2], 0) :
      m \in ModelNames, x \in PromptCounts \X CompletionCounts }
    \cup { Payload(TRUE, "message_delta", NoModel, Absent, y, 0) : y \in CompletionCounts }
    \cup { Payload(TRUE, t, NoModel, Absent, Absent, 0) :
             t \in {"ping", "content_block_start", "content_block_delta",
                    "content_block_stop", "message_stop", "error"} }
    \cup { BadPayload }

Providers == {"openai", "xai", "google", "anthropic"}

PayloadsOf(pr) ==
  CASE pr \in {"openai", "xai"} -> OpenAiPayloads
    [] pr = "google" -> GooglePayloads
    [] pr = "anthropic" -> AnthropicPayloads

\* mutant: counts are written only while the accumulator has none
SetCounts_FirstWins(u, prompt, completion) ==
  IF u.promptTokens = Absent
    THEN [u EXCEPT !.promptTokens = prompt, !.completionTokens = completion]
    ELSE u

\* usage.promptTokens = ...; usage.completionTokens = ...
SetCounts(u, prompt, completion) ==
  [u EXCEPT !.promptTokens = prompt, !.completionTokens = completion]

\* the result of a normalizer call: the accumulator after it, and whether it
\* raised
Returned(u) == [usage |-> u, raised |-> FALSE]
Raised(u) == [usage |-> u, raised |-> TRUE]

\* parseOpenAiDelta(data, usage)
parseOpenAiDelta(data, u) ==
  IF ~data.ok THEN Raised(u)
  ELSE
    LET u1 == [u EXCEPT !.responseModel = data.model]
        u2 == IF data.prompt # Absent THEN SetCounts(u1, data.prompt, data.completion)
              ELSE u1
    IN  IF data.choices = 0 /\ data.prompt = Absent THEN Raised(u2) ELSE Returned(u2)

\* parseXaiDelta(data, usage)
parseXaiDelta(data, u) ==
  IF ~data.ok THEN Raised(u)
  ELSE
    LET u1 == [u EXCEPT !.responseModel = data.model]
        u2 == IF data.prompt # Absent THEN SetCounts(u1, data.prompt, data.completion)
              ELSE u1
    IN  IF data.choices = 0 /\ data.prompt = Absent THEN Raised(u2) ELSE Returned(u2)

\* parseGoogleLlmDelta(data, usage)
parseGoogleLlmDelta(data, u) ==
  IF ~data.ok THEN Raised(u)
  ELSE
    LET u1 == IF data.prompt # Absent /\ data.completion # Absent
                THEN SetCounts(u, data.prompt, data.completion)
              ELSE u
    IN  Returned([u1 EXCEPT !.responseModel = data.model])

\* parseAnthropicLlmDelta(data, usage)
parseAnthropicLlmDelta(data, u) ==
  IF ~data.ok THEN Raised(u)
  ELSE CASE data.type = "error" -> Raised(u)
         [] data.type = "message_start" ->
              Returned(SetCounts([u EXCEPT !.responseModel = data.model],
                                 data.prompt, data.completion))
         [] data.type = "message_delta" ->
              Returned([u EXCEPT !.completionTokens = data.completion])
         [] OTHER -> Returned(u)

\* parseDelta of the stream's LLMApiConfig
parseDelta(pr, data, u) ==
  CASE pr = "openai" -> parseOpenAiDelta(data, u)
    [] pr = "xai" -> parseXaiDelta(data, u)
    [] pr = "google" -> parseGoogleLlmDelta(data, u)
    [] pr = "anthropic" -> parseAnthropicLlmDelta(data, u)

\* the receive-callback hands the payload of one event to the normalizer
Normalize(data) ==
  /\ provider \in Providers
  /\ ~normFailed
  /\ Len(pay) < MaxPayloads
  /\ LET r == parseDelta(provider, data, usage)
     IN  /\ usage' = r.usage
         /\ normFailed' = r.raised
  /\ pay' = Append(pay, data)
  /\ UNCHANGED <<provider, streamVars, sseVars, kvVars, mergeVars, feedVars, asyncVars, raceVars, svcVars>>

(***************************************************************************)
(* llmStream: an async generator.  Its reader (the async function started  *)
(* before the loop) reads fragments and feeds them to the SSE parser,      *)
(* whose receive-callback normalizes each payload; the generator's loop    *)
(* drains dataQueue, then looks at llmDone, then at llmError, then waits.  *)
(* A fragment is modelled by the payloads of the events it completes.      *)
(***************************************************************************)
\* event.data === '[DONE]'
Sentinel == Payload(FALSE, "[DONE]", NoModel, Absent, Absent, 0)

\* payloads of the events of a stream: two chunks with a choice, text that
\* is not a chunk, and the sentinel
StreamPayloads ==
  { Payload(TRUE, "chunk", 1, Absent, Absent, 1),
    Payload(TRUE, "chunk", 2, 3, 5, 1),
    BadPayload, Sentinel }

SeqsUpTo(S, n) == UNION { [1..k -> S] : k \in 1..n }

Fragments == SeqsUpTo(StreamPayloads, MaxEvents)

Finished == {"done", "thrown", "closed"}

\* the generator's loop from its top until it suspends or finishes: the
\* state it stops in, the queue it leaves, what it yields, and whether it
\* left a callback behind
Resume(q, d, e) ==
  IF q # <<>>
    THEN [gpc |-> "yield", queue |-> Tail(q), out |-> <<Head(q)>>, cb |-> FALSE]
  ELSE IF d
    THEN [gpc |-> "done", queue |-> q, out |-> <<>>, cb |-> FALSE]
  ELSE IF e # ""
    THEN [gpc |-> "thrown", queue |-> q, out |-> <<>>, cb |-> FALSE]
  ELSE [gpc |-> "wait", queue |-> q, out |-> <<>>, cb |-> TRUE]

\* the reader leaves queue q, llmDone d and llmError e; with wake it calls
\* callOnDataCallback, and a waiting generator then runs on before the
\* reader's next step
Deliver(q, d, e, wake) ==
  /\ llmDone' = d
  /\ llmError' = e
  /\ IF wake /\ onDataCallback
       THEN LET r == Resume(q, d, e)
            IN  /\ gpc' = r.gpc
                /\ dataQueue' = r.queue
                /\ got' = got \o r.out
                /\ onDataCallback' = r.cb
       ELSE /\ dataQueue' = q
            /\ UNCHANGED <<gpc, got, onDataCallback>>

\* the consumer asks for the next delta: the first time the generator's body
\* starts the reader and enters its loop, later it resumes after its yield
Pull ==
  /\ gpc \in {"start", "yield"}
  /\ LET r == Resume(dataQueue, llmDone, llmError)
     IN  /\ gpc' = r.gpc
         /\ dataQueue' = r.queue
         /\ got' = got \o r.out
         /\ onDataCallback' = r.cb
  /\ rpc' = IF gpc = "start" THEN "reading" ELSE rpc
  /\ UNCHANGED <<reads, fragment, llmDone, llmError, liveAtFault>>
  /\ UNCHANGED <<usageVars, sseVars, kvVars, mergeVars, feedVars, asyncVars, raceVars, svcVars>>

\* the consumer closes the stream (return()) while the generator is suspended
\* at its yield: the generator finishes there; its body has no finally block
\* and holds no handle on the reader
Close ==
  /\ gpc = "yield"
  /\ gpc' = "closed"
  /\ UNCHANGED <<rpc, reads, fragment, dataQueue, llmDone, llmError,
                 onDataCallback, got, liveAtFault>>
  /\ UNCHANGED <<usageVars, sseVars, kvVars, mergeVars, feedVars, asyncVars, raceVars, svcVars>>

\* llmReader.read() gives a fragment, handed to sseParser.feed
ReadChunk(c) ==
  /\ rpc = "reading"
  /\ reads < MaxReads
  /\ reads' = reads + 1
  /\ fragment' = c
  /\ rpc' = "feeding"
  /\ UNCHANGED <<dataQueue, llmDone, llmError, onDataCallback, gpc, got, liveAtFault>>
  /\ UNCHANGED <<usageVars, sseVars, kvVars, mergeVars, feedVars, asyncVars, raceVars, svcVars>>

\* the parser dispatches the next event of the fragment to the
\* receive-callback; a normalizer that raises rejects feed, and the reader
\* ends in its catch and finally
OnParse ==
  /\ rpc = "feeding"
  /\ LET data == Head(fragment)
         more == IF Tail(fragment) = <<>> THEN "reading" ELSE "feeding"
         r == parseDelta(provider, data, usage)
     IN  IF data = Sentinel
           THEN /\ Deliver(dataQueue, TRUE, llmError, TRUE)
                /\ fragment' = Tail(fragment)
                /\ rpc' = more
                /\ UNCHANGED <<usage, pay, normFailed, liveAtFault>>
           ELSE /\ usage' = r.usage
                /\ normFailed' = r.raised
                /\ pay' = Append(pay, data)
                /\ IF r.raised
                     THEN /\ Deliver(dataQueue, llmDone, "normalizer", TRUE)
                          /\ fragment' = <<>>
                          /\ rpc' = "ended"
                          /\ liveAtFault' = (gpc \notin Finished)
                     ELSE /\ Deliver(Append(dataQueue, data), llmDone, llmError, TRUE)
                          /\ fragment' = Tail(fragment)
                          /\ rpc' = more
                          /\ UNCHANGED liveAtFault
  /\ UNCHANGED <<provider, reads>>
  /\ UNCHANGED <<sseVars, kvVars, mergeVars, feedVars, asyncVars, raceVars, svcVars>>

\* llmReader.read() reports the end of the body
ReadDone ==
  /\ rpc = "reading"
  /\ Deliver(dataQueue, TRUE, llmError, TRUE)
  /\ rpc' = "ended"
  /\ UNCHANGED <<reads, fragment, liveAtFault>>
  /\ UNCHANGED <<usageVars, sseVars, kvVars, mergeVars, feedVars, asyncVars, raceVars, svcVars>>

\* llmReader.read() rejects
ReadFault ==
  /\ rpc = "reading"
  /\ Deliver(dataQueue, llmDone, "source", TRUE)
  /\ rpc' = "ended"
  /\ liveAtFault' = (gpc \notin Finished)
  /\ UNCHANGED <<reads, fragment>>
  /\ UNCHANGED <<usageVars, sseVars, kvVars, mergeVars, feedVars, asyncVars, raceVars, svcVars>>

\* the deltas the normalizer returned
Normalized == IF normFailed THEN SubSeq(pay, 1, Len(pay) - 1) ELSE pay

(***************************************************************************)
(* Specifications: one per component; the other components stay idle.      *)
(***************************************************************************)
\* a fresh parser and a document to feed to it
SseInit ==
  /\ doc \in SseDocs
  /\ rest = doc
  /\ parser = ResetState
  /\ fresh = NoFresh
  /\ fedLines = <<>>
  /\ kvDoc = <<>>
  /\ kvRest = <<>>
  /\ kvBuffer = <<>>
  /\ kvOut = <<>>
  /\ kvFailed = FALSE
  /\ kvIn = <<>>
  /\ kvTokens = <<>>
  /\ kvItems = <<>>
  /\ answers = [i \in Sources |-> <<>>]
  /\ reqs = [i \in Sources |-> 0]
  /\ slotReq = [i \in Sources |-> 0]
  /\ retired = [i \in Sources |-> FALSE]
  /\ consumed = [i \in Sources |-> 0]
  /\ count = 0
  /\ arrived = <<>>
  /\ raceWinner = 0
  /\ mpc = "idle"
  /\ yielded = [i \in Sources |-> <<>>]
  /\ lateYield = FALSE
  /\ staleYield = FALSE
  /\ retSent = [i \in Sources |-> 0]
  /\ error = 0
  /\ provider = "none"
  /\ usage = NoUsage
  /\ pay = <<>>
  /\ normFailed = FALSE
  /\ rpc = "idle"
  /\ reads = 0
  /\ fragment = <<>>
  /\ dataQueue = <<>>
  /\ llmDone = FALSE
  /\ llmError = ""
  /\ onDataCallback = FALSE
  /\ gpc = "start"
  /\ got = <<>>
  /\ liveAtFault = FALSE
  /\ resolved = 0
  /\ everRaised = FALSE
  /\ scanned = <<>>
  /\ calls = NoCalls
  /\ serial = ResetState
  /\ overlapped = FALSE
  /\ nextPromisses = [i \in Sources |-> "unset"]
  /\ mergePos = "idle"
  /\ winner = 0
  /\ lastIndex = 0
  /\ overtaken = [i \in Sources |-> 0]
  /\ returned = [i \in Sources |-> FALSE]
  /\ respKind = "none"
  /\ dataPrefix = <<>>
  /\ deltas = <<>>
  /\ ending = "end"
  /\ taken = 0
  /\ frames = <<>>
  /\ wpc = "idle"
  /\ maxQPW = 0
  /\ windowMs = 0
  /\ clock = 0
  /\ requestTimestamps = <<>>
  /\ sleeping = <<>>
  /\ admissions = <<>>
  /\ numWorkers = 0
  /\ tasks = <<>>
  /\ taskIter = 0
  /\ workers = <<>>
  /\ started = <<>>
  /\ poolPc = "idle"
  /\ accessTokenCache = <<>>
  /\ fetches = <<>>
  /\ getCalls = <<>>
  /\ numSegments = 0
  /\ segTasks = <<>>
  /\ filesToDelete = <<>>
  /\ onDisk = {}
  /\ ttsPc = "idle"
  /\ awaited = 0
  /\ deleteIndex = 0
  /\ ttsOutcome = ""

SseNext == \E n \in 1..Len(rest) : Feed(n)

SseSpec == SseInit /\ [][SseNext]_vars

\* a fresh parser, a document to feed to it, and one reset() on the way
SseResetInit ==
  /\ doc \in ResetDocs
  /\ rest = doc
  /\ parser = ResetState
  /\ fresh = NoFresh
  /\ fedLines = <<>>
  /\ kvDoc = <<>>
  /\ kvRest = <<>>
  /\ kvBuffer = <<>>
  /\ kvOut = <<>>
  /\ kvFailed = FALSE
  /\ kvIn = <<>>
  /\ kvTokens = <<>>
  /\ kvItems = <<>>
  /\ answers = [i \in Sources |-> <<>>]
  /\ reqs = [i \in Sources |-> 0]
  /\ slotReq = [i \in Sources |-> 0]
  /\ retired = [i \in Sources |-> FALSE]
  /\ consumed = [i \in Sources |-> 0]
  /\ count = 0
  /\ arrived = <<>>
  /\ raceWinner = 0
  /\ mpc = "idle"
  /\ yielded = [i \in Sources |-> <<>>]
  /\ lateYield = FALSE
  /\ staleYield = FALSE
  /\ retSent = [i \in Sources |-> 0]
  /\ error = 0
  /\ provider = "none"
  /\ usage = NoUsage
  /\ pay = <<>>
  /\ normFailed = FALSE
  /\ rpc = "idle"
  /\ reads = 0
  /\ fragment = <<>>
  /\ dataQueue = <<>>
  /\ llmDone = FALSE
  /\ llmError = ""
  /\ onDataCallback = FALSE
  /\ gpc = "start"
  /\ got = <<>>
  /\ liveAtFault = FALSE
  /\ resolved = 0
  /\ everRaised = FALSE
  /\ scanned = <<>>
  /\ calls = NoCalls
  /\ serial = ResetState
  /\ overlapped = FALSE
  /\ nextPromisses = [i \in Sources |-> "unset"]
  /\ mergePos = "idle"
  /\ winner = 0
  /\ lastIndex = 0
  /\ overtaken = [i \in Sources |-> 0]
  /\ returned = [i \in Sources |-> FALSE]
  /\ respKind = "none"
  /\ dataPrefix = <<>>
  /\ deltas = <<>>
  /\ ending = "end"
  /\ taken = 0
  /\ frames = <<>>
  /\ wpc = "idle"
  /\ maxQPW = 0
  /\ windowMs = 0
  /\ clock = 0
  /\ requestTimestamps = <<>>
  /\ sleeping = <<>>
  /\ admissions = <<>>
  /\ numWorkers = 0
  /\ tasks = <<>>
  /\ taskIter = 0
  /\ workers = <<>>
  /\ started = <<>>
  /\ poolPc = "idle"
  /\ accessTokenCache = <<>>
  /\ fetches = <<>>
  /\ getCalls = <<>>
  /\ numSegments = 0
  /\ segTasks = <<>>
  /\ filesToDelete = <<>>
  /\ onDisk = {}
  /\ ttsPc = "idle"
  /\ awaited = 0
  /\ deleteIndex = 0
  /\ ttsOutcome = ""

SseResetNext ==
  \/ \E n \in 1..Len(rest) : Feed(n)
  \/ \E again \in BOOLEAN : Reset(again)

SseResetSpec == SseResetInit /\ [][SseResetNext]_vars

\* a fresh parser that is fed whole lines
SseLineInit ==
  /\ doc = <<>>
  /\ rest = doc
  /\ parser = ResetState
  /\ fresh = NoFresh
  /\ fedLines = <<>>
  /\ kvDoc = <<>>
  /\ kvRest = <<>>
  /\ kvBuffer = <<>>
  /\ kvOut = <<>>
  /\ kvFailed = FALSE
  /\ kvIn = <<>>
  /\ kvTokens = <<>>
  /\ kvItems = <<>>
  /\ answers = [i \in Sources |-> <<>>]
  /\ reqs = [i \in Sources |-> 0]
  /\ slotReq = [i \in Sources |-> 0]
  /\ retired = [i \in Sources |-> FALSE]
  /\ consumed = [i \in Sources |-> 0]
  /\ count = 0
  /\ arrived = <<>>
  /\ raceWinner = 0
  /\ mpc = "idle"
  /\ yielded = [i \in Sources |-> <<>>]
  /\ lateYield = FALSE
  /\ staleYield = FALSE
  /\ retSent = [i \in Sources |-> 0]
  /\ error = 0
  /\ provider = "none"
  /\ usage = NoUsage
  /\ pay = <<>>
  /\ normFailed = FALSE
  /\ rpc = "idle"
  /\ reads = 0
  /\ fragment = <<>>
  /\ dataQueue = <<>>
  /\ llmDone = FALSE
  /\ llmError = ""
  /\ onDataCallback = FALSE
  /\ gpc = "start"
  /\ got = <<>>
  /\ liveAtFault = FALSE
  /\ resolved = 0
  /\ everRaised = FALSE
  /\ scanned = <<>>
  /\ calls = NoCalls
  /\ serial = ResetState
  /\ overlapped = FALSE
  /\ nextPromisses = [i \in Sources |-> "unset"]
  /\ mergePos = "idle"
  /\ winner = 0
  /\ lastIndex = 0
  /\ overtaken = [i \in Sources |-> 0]
  /\ returned = [i \in Sources |-> FALSE]
  /\ respKind = "none"
  /\ dataPrefix = <<>>
  /\ deltas = <<>>
  /\ ending = "end"
  /\ taken = 0
  /\ frames = <<>>
  /\ wpc = "idle"
  /\ maxQPW = 0
  /\ windowMs = 0
  /\ clock = 0
  /\ requestTimestamps = <<>>
  /\ sleeping = <<>>
  /\ admissions = <<>>
  /\ numWorkers = 0
  /\ tasks = <<>>
  /\ taskIter = 0
  /\ workers = <<>>
  /\ started = <<>>
  /\ poolPc = "idle"
  /\ accessTokenCache = <<>>
  /\ fetches = <<>>
  /\ getCalls = <<>>
  /\ numSegments = 0
  /\ segTasks = <<>>
  /\ filesToDelete = <<>>
  /\ onDisk = {}
  /\ ttsPc = "idle"
  /\ awaited = 0
  /\ deleteIndex = 0
  /\ ttsOutcome = ""

SseLineNext == \E l \in StreamLines : FeedLine(l)

SseLineSpec == SseLineInit /\ [][SseLineNext]_vars

\* parseKeyValueDeltas called on a source of deltas that carries a text
KvInit ==
  /\ doc = <<>>
  /\ rest = <<>>
  /\ parser = ResetState
  /\ fresh = NoFresh
  /\ fedLines = <<>>
  /\ kvDoc \in KvDocs
  /\ kvRest = kvDoc
  /\ kvBuffer = <<>>
  /\ kvOut = <<>>
  /\ kvFailed = FALSE
  /\ kvIn = <<>>
  /\ kvTokens = <<>>
  /\ kvItems = <<>>
  /\ answers = [i \in Sources |-> <<>>]
  /\ reqs = [i \in Sources |-> 0]
  /\ slotReq = [i \in Sources |-> 0]
  /\ retired = [i \in Sources |-> FALSE]
  /\ consumed = [i \in Sources |-> 0]
  /\ count = 0
  /\ arrived = <<>>
  /\ raceWinner = 0
  /\ mpc = "idle"
  /\ yielded = [i \in Sources |-> <<>>]
  /\ lateYield = FALSE
  /\ staleYield = FALSE
  /\ retSent = [i \in Sources |-> 0]
  /\ error = 0
  /\ provider = "none"
  /\ usage = NoUsage
  /\ pay = <<>>
  /\ normFailed = FALSE
  /\ rpc = "idle"
  /\ reads = 0
  /\ fragment = <<>>
  /\ dataQueue = <<>>
  /\ llmDone = FALSE
  /\ llmError = ""
  /\ onDataCallback = FALSE
  /\ gpc = "start"
  /\ got = <<>>
  /\ liveAtFault = FALSE
  /\ resolved = 0
  /\ everRaised = FALSE
  /\ scanned = <<>>
  /\ calls = NoCalls
  /\ serial = ResetState
  /\ overlapped = FALSE
  /\ nextPromisses = [i \in Sources |-> "unset"]
  /\ mergePos = "idle"
  /\ winner = 0
  /\ lastIndex = 0
  /\ overtaken = [i \in Sources |-> 0]
  /\ returned = [i \in Sources |-> FALSE]
  /\ respKind = "none"
  /\ dataPrefix = <<>>
  /\ deltas = <<>>
  /\ ending = "end"
  /\ taken = 0
  /\ frames = <<>>
  /\ wpc = "idle"
  /\ maxQPW = 0
  /\ windowMs = 0
  /\ clock = 0
  /\ requestTimestamps = <<>>
  /\ sleeping = <<>>
  /\ admissions = <<>>
  /\ numWorkers = 0
  /\ tasks = <<>>
  /\ taskIter = 0
  /\ workers = <<>>
  /\ started = <<>>
  /\ poolPc = "idle"
  /\ accessTokenCache = <<>>
  /\ fetches = <<>>
  /\ getCalls = <<>>
  /\ numSegments = 0
  /\ segTasks = <<>>
  /\ filesToDelete = <<>>
  /\ onDisk = {}
  /\ ttsPc = "idle"
  /\ awaited = 0
  /\ deleteIndex = 0
  /\ ttsOutcome = ""

KvNext == \E n \in 1..Len(kvRest) : KvDelta(n)

KvSpec == KvInit /\ [][KvNext]_vars

\* parseKeyValueDeltas called on a source that carries a key-value document
KvWholeInit ==
  /\ doc = <<>>
  /\ rest = <<>>
  /\ parser = ResetState
  /\ fresh = NoFresh
  /\ fedLines = <<>>
  /\ kvItems \in KvDocuments(MaxItems)
  /\ kvDoc = KvText(kvItems)
  /\ kvRest = kvDoc
  /\ kvBuffer = <<>>
  /\ kvOut = <<>>
  /\ kvFailed = FALSE
  /\ kvIn = <<>>
  /\ kvTokens = <<>>
  /\ answers = [i \in Sources |-> <<>>]
  /\ reqs = [i \in Sources |-> 0]
  /\ slotReq = [i \in Sources |-> 0]
  /\ retired = [i \in Sources |-> FALSE]
  /\ consumed = [i \in Sources |-> 0]
  /\ count = 0
  /\ arrived = <<>>
  /\ raceWinner = 0
  /\ mpc = "idle"
  /\ yielded = [i \in Sources |-> <<>>]
  /\ lateYield = FALSE
  /\ staleYield = FALSE
  /\ retSent = [i \in Sources |-> 0]
  /\ error = 0
  /\ provider = "none"
  /\ usage = NoUsage
  /\ pay = <<>>
  /\ normFailed = FALSE
  /\ rpc = "idle"
  /\ reads = 0
  /\ fragment = <<>>
  /\ dataQueue = <<>>
  /\ llmDone = FALSE
  /\ llmError = ""
  /\ onDataCallback = FALSE
  /\ gpc = "start"
  /\ got = <<>>
  /\ liveAtFault = FALSE
  /\ resolved = 0
  /\ everRaised = FALSE
  /\ scanned = <<>>
  /\ calls = NoCalls
  /\ serial = ResetState
  /\ overlapped = FALSE
  /\ nextPromisses = [i \in Sources |-> "unset"]
  /\ mergePos = "idle"
  /\ winner = 0
  /\ lastIndex = 0
  /\ overtaken = [i \in Sources |-> 0]
  /\ returned = [i \in Sources |-> FALSE]
  /\ respKind = "none"
  /\ dataPrefix = <<>>
  /\ deltas = <<>>
  /\ ending = "end"
  /\ taken = 0
  /\ frames = <<>>
  /\ wpc = "idle"
  /\ maxQPW = 0
  /\ windowMs = 0
  /\ clock = 0
  /\ requestTimestamps = <<>>
  /\ sleeping = <<>>
  /\ admissions = <<>>
  /\ numWorkers = 0
  /\ tasks = <<>>
  /\ taskIter = 0
  /\ workers = <<>>
  /\ started = <<>>
  /\ poolPc = "idle"
  /\ accessTokenCache = <<>>
  /\ fetches = <<>>
  /\ getCalls = <<>>
  /\ numSegments = 0
  /\ segTasks = <<>>
  /\ filesToDelete = <<>>
  /\ onDisk = {}
  /\ ttsPc = "idle"
  /\ awaited = 0
  /\ deleteIndex = 0
  /\ ttsOutcome = ""

KvWholeNext == KvWhole

KvWholeSpec == KvWholeInit /\ [][KvWholeNext]_vars

\* mergeGenerators called on generators that have not been started
MergeInit ==
  /\ doc = <<>>
  /\ rest = <<>>
  /\ parser = ResetState
  /\ fresh = NoFresh
  /\ fedLines = <<>>
  /\ kvDoc = <<>>
  /\ kvRest = <<>>
  /\ kvBuffer = <<>>
  /\ kvOut = <<>>
  /\ kvFailed = FALSE
  /\ kvIn = <<>>
  /\ kvTokens = <<>>
  /\ kvItems = <<>>
  /\ answers = [i \in Sources |-> <<>>]
  /\ reqs = [i \in Sources |-> 0]
  /\ slotReq = [i \in Sources |-> 0]
  /\ retired = [i \in Sources |-> FALSE]
  /\ consumed = [i \in Sources |-> 0]
  /\ count = 0
  /\ arrived = <<>>
  /\ raceWinner = 0
  /\ mpc = "init"
  /\ yielded = [i \in Sources |-> <<>>]
  /\ lateYield = FALSE
  /\ staleYield = FALSE
  /\ retSent = [i \in Sources |-> 0]
  /\ error = 0
  /\ provider = "none"
  /\ usage = NoUsage
  /\ pay = <<>>
  /\ normFailed = FALSE
  /\ rpc = "idle"
  /\ reads = 0
  /\ fragment = <<>>
  /\ dataQueue = <<>>
  /\ llmDone = FALSE
  /\ llmError = ""
  /\ onDataCallback = FALSE
  /\ gpc = "start"
  /\ got = <<>>
  /\ liveAtFault = FALSE
  /\ resolved = 0
  /\ everRaised = FALSE
  /\ scanned = <<>>
  /\ calls = NoCalls
  /\ serial = ResetState
  /\ overlapped = FALSE
  /\ nextPromisses = [i \in Sources |-> "unset"]
  /\ mergePos = "idle"
  /\ winner = 0
  /\ lastIndex = 0
  /\ overtaken = [i \in Sources |-> 0]
  /\ returned = [i \in Sources |-> FALSE]
  /\ respKind = "none"
  /\ dataPrefix = <<>>
  /\ deltas = <<>>
  /\ ending = "end"
  /\ taken = 0
  /\ frames = <<>>
  /\ wpc = "idle"
  /\ maxQPW = 0
  /\ windowMs = 0
  /\ clock = 0
  /\ requestTimestamps = <<>>
  /\ sleeping = <<>>
  /\ admissions = <<>>
  /\ numWorkers = 0
  /\ tasks = <<>>
  /\ taskIter = 0
  /\ workers = <<>>
  /\ started = <<>>
  /\ poolPc = "idle"
  /\ accessTokenCache = <<>>
  /\ fetches = <<>>
  /\ getCalls = <<>>
  /\ numSegments = 0
  /\ segTasks = <<>>
  /\ filesToDelete = <<>>
  /\ onDisk = {}
  /\ ttsPc = "idle"
  /\ awaited = 0
  /\ deleteIndex = 0
  /\ ttsOutcome = ""

MergeNext ==
  \/ MergeStart
  \/ \E i \in Sources : SourceSettle(i)
  \/ MergeResume
  \/ ConsumerNext
  \/ ConsumerReturn
  \/ ConsumerThrow

MergeSpec == MergeInit /\ [][MergeNext]_vars

\* The consumer keeps pulling: it never stops early.
MergePullNext ==
  \/ MergeStart
  \/ \E i \in Sources : SourceSettle(i)
  \/ MergeResume
  \/ ConsumerNext

\* Every pending next() of a source settles, the microtask that resumes the
\* merge runs, and the consumer goes on pulling.
MergeFairSpec ==
  /\ MergeInit
  /\ [][MergePullNext]_vars
  /\ \A i \in Sources : WF_vars(SourceSettle(i))
  /\ WF_vars(MergeStart)
  /\ WF_vars(MergeResume)
  /\ WF_vars(ConsumerNext)

(***************************************************************************)
(* Claims.                                                                 *)
(***************************************************************************)

\* C1: chunking invariance of the event-stream parser.  Once every fragment
\* of the document has been fed to a fresh parser, the events dispatched
\* are those one feed call of the whole document dispatches.
C1_ChunkingInvariance ==
  rest = <<>> => parser.out = WholeFeed(doc)

\* the values source i has produced so far
ValuesOf(i) == Len(SelectSeq(answers[i], LAMBDA a : a = "value"))

\* C2: while the merge runs (also while it is suspended at its yield), every
\* source the merge has not seen complete has exactly one outstanding next()
\* call, that is one call whose result the merge has not taken yet, and every
\* source it has seen complete has none.
C2_OnePullPerLiveSource ==
  MergeLive =>
    \A i \in Sources : reqs[i] - consumed[i] = (IF retired[i] THEN 0 ELSE 1)

C2_Witness ==
  /\ mpc = "yield"
  /\ \E i, j \in Sources :
       /\ retired[i]
       /\ ~retired[j]
       /\ Len(yielded[j]) >= 1
       /\ Settled(j)

\* C3: when no source faults and the consumer keeps pulling, the merge
\* yields every value every source produced exactly once and then completes,
\* exactly when count reaches zero.
C3_AllOnceAtDone ==
  /\ mpc = "done" =>
       \A i \in Sources : yielded[i] = [k \in 1..ValuesOf(i) |-> k]
  /\ mpc # "init" => (mpc = "done" <=> count = 0)

SomeFault == \E i \in Sources : \E r \in 1..Len(answers[i]) : answers[i][r] = "fault"

C3_YieldsAllThenCompletes ==
  /\ []C3_AllOnceAtDone
  /\ <>(mpc = "done" \/ SomeFault)

C3_Witness ==
  /\ mpc = "done"
  /\ \E i, j \in Sources : Len(yielded[i]) = MaxVals /\ Len(yielded[j]) = 0

\* C4: the values of one source are yielded in the order the source produced
\* them: the p-th value yielded of source i is the p-th value it produced.
C4_SourceOrder ==
  \A i \in Sources : \A p \in 1..Len(yielded[i]) : yielded[i][p] = p

C4_Witness ==
  \E i, j \in Sources :
    /\ i # j
    /\ Len(yielded[i]) >= 2
    /\ Len(yielded[j]) >= 1

\* C5: values of different sources are yielded in the order their pulls
\* settled: no value is yielded while a value of another source, whose pull
\* settled earlier, still waits.
C5_ArrivalOrder == ~lateYield

\* C6: when the consumer stops early (return or throw), every source the
\* merge has not seen complete has been sent return() exactly once and the
\* sources it has seen complete none; when the merge completes normally, no
\* source has been sent return().
C6_TerminationSweep ==
  /\ mpc \in {"returned", "thrown"} =>
       \A i \in Sources : retSent[i] = (IF retired[i] THEN 0 ELSE 1)
  /\ mpc = "done" => \A i \in Sources : retSent[i] = 0

C6_Witness ==
  /\ mpc \in {"returned", "thrown"}
  /\ \E i, j \in Sources : retired[i] /\ ~retired[j] /\ retSent[j] = 1

\* C7: once a pull of a source has faulted the merge yields no further
\* value (here: no value whose pull settled after the fault); the error the
\* merge throws is that fault; and by then every other source not seen
\* complete has been sent return().
C7_FaultSurfacesAtOnce ==
  /\ ~staleYield
  /\ mpc = "faulted" =>
       /\ error \in Sources
       /\ Answer(error, slotReq[error]) = "fault"
       /\ \A j \in Sources : (j # error /\ ~retired[j]) => retSent[j] >= 1

\* parseKeyValueDelta has been called
KvCalled == kvRest # kvDoc

IsTerminal(t) == t.type \in {"incomplete_kv", "remaining"}

\* C8: every call of parseKeyValueDelta yields exactly one terminal token
\* (incomplete_kv or remaining), as its last token, and its remaining text is
\* a suffix of the input; parseKeyValueDeltas never throws 'Unexpected end
\* of parse'.
C8_OneTerminalToken ==
  /\ ~kvFailed
  /\ KvCalled =>
       /\ Len(kvTokens) >= 1
       /\ \A p \in 1..Len(kvTokens) : IsTerminal(kvTokens[p]) <=> p = Len(kvTokens)
       /\ IsSuffix(kvTokens[Len(kvTokens)].remaining, kvIn)

C8_Witness ==
  /\ KvCalled
  /\ Len(kvTokens) >= 3
  /\ kvTokens[1].type = "kv"
  /\ kvTokens[2].type = "separator"

\* the text delivered so far
KvFed == SubSeq(kvDoc, 1, Len(kvDoc) - Len(kvRest))

\* the tokens that are consumed for good
KvConsumed(tokens) == SelectSeq(tokens, LAMBDA t : t.type \in {"kv", "separator"})

\* C9: whatever the split into fragments, the kv and separator tokens
\* parseKeyValueDeltas has forwarded are those of one parseKeyValueDelta call
\* on the whole text delivered, each once, and it forwards no remaining token.
C9_WrapperForwardsOnce ==
  /\ KvConsumed(kvOut) = KvConsumed(parseKeyValueDelta(KvFed))
  /\ \A p \in 1..Len(kvOut) : kvOut[p].type # "remaining"

C9_Witness ==
  /\ kvRest = <<>>
  /\ Len(KvConsumed(kvOut)) >= 2
  /\ kvIn # kvDoc
  /\ \E p \in 1..Len(kvOut) : kvOut[p].type = "incomplete_kv"

\* `$` and key characters, with or without the colon after them
KeyOnly(s) ==
  /\ Len(s) >= 1
  /\ s[1] = "$"
  /\ \A p \in 2..Len(s) : IsKeyChar(s[p]) \/ (p = Len(s) /\ p > 2 /\ s[p] = ":")

\* C10: a buffer that holds only a (partial) key, with or without its colon,
\* gives exactly one token: remaining, with the whole input.
C10_KeyOnlyIsRemaining ==
  (KvCalled /\ KeyOnly(kvIn)) => kvTokens = << RemainingToken(kvIn) >>

C10_Witness ==
  /\ KvCalled
  /\ KeyOnly(kvIn)
  /\ kvIn[Len(kvIn)] = ":"
  /\ kvTokens = << RemainingToken(kvIn) >>

\* the index of the colon that ends the key of s
ColonAt(s) == KeyEnd(s, 1)

\* `$KEY:`, a white-space character and a value with visible text, and no
\* terminator (a line starting with `$` or with the separator) anywhere
PartialPair(s) ==
  /\ KeyHead(s) >= 0
  /\ Trim(SliceFrom(s, ColonAt(s) + 1)) # <<>>
  /\ \A i \in 0..Len(s) : ~KvLookahead(s, i)

\* C11: a buffer that holds a key, white space and a non-empty value with no
\* terminator gives exactly one token: incomplete_kv with that key, the text
\* after the colon trimmed on both sides, and the whole buffer as remaining.
C11_PartialPairIsPreview ==
  (KvCalled /\ PartialPair(kvIn)) =>
    kvTokens = << [type      |-> "incomplete_kv",
                   key       |-> Slice(kvIn, 1, ColonAt(kvIn)),
                   value     |-> Trim(SliceFrom(kvIn, ColonAt(kvIn) + 1)),
                   remaining |-> kvIn] >>

C11_Witness ==
  /\ KvCalled
  /\ PartialPair(kvIn)
  /\ Len(kvTokens) = 1
  /\ kvTokens[1].type = "incomplete_kv"
  /\ kvTokens[1].remaining = kvIn
  /\ Len(kvTokens[1].value) + 3 <= Len(kvIn) - ColonAt(kvIn) - 1

\* the visible text of the value of a key-value line
KvValueOf(x) == IF x.raw = <<"v", " ">> THEN <<"v">> ELSE x.raw

\* the token of line p of the document d
KvLineToken(d, p) ==
  IF d[p].sep THEN SeparatorToken
  ELSE IF p < Len(d) THEN KvToken(d[p].key, KvValueOf(d[p]))
  ELSE IncompleteKvToken(d[p].key, KvValueOf(d[p]), KvLineText(d, p))

\* the tokens of the document d: one per line, then remaining with an empty
\* text unless the last line is a key-value line
KvDocumentTokens(d) ==
  [p \in 1..Len(d) |-> KvLineToken(d, p)]
    \o (IF d[Len(d)].sep THEN << RemainingToken(<<>>) >> ELSE <<>>)

C13_ResetIsFresh ==
  fresh.on =>
    /\ Len(parser.out) >= fresh.mark
    /\ SubSeq(parser.out, fresh.mark + 1, Len(parser.out)) = fresh.p.out
    /\ [parser EXCEPT !.out = <<>>] = [fresh.p EXCEPT !.out = <<>>]

C13_Witness ==
  /\ fresh.on
  /\ rest = <<>>
  /\ fresh.pending
  /\ fresh.p.out # <<>>
  /\ SubSeq(parser.out, fresh.mark + 1, Len(parser.out)) = fresh.p.out

\* the fragment a feed step delivers
FedChunk == SubSeq(rest, 1, Len(rest) - Len(rest'))

\* a step that is a feed call
FeedStep == fresh'.on = fresh.on /\ rest' # rest

\* no fragment was fed since construction or since reset()
FirstFragment == IF fresh.on THEN ~fresh.fed ELSE rest = doc

C14_Step ==
  FeedStep =>
    parser' = FeedBuffer(parser,
                         IF FirstFragment /\ IsPrefix(BOM, FedChunk)
                           THEN SliceFrom(FedChunk, Len(BOM))
                           ELSE parser.buffer \o FedChunk)

\* C14: a feed call works on the buffer without the byte-order mark when the
\* fragment is the first after construction or reset() and starts with the
\* mark; in every other call it works on the buffer followed by the fragment
\* as it is, so that a mark anywhere else stays in the lines.
C14_BomOnlyAtStart == [][C14_Step]_vars

C14_Witness ==
  /\ fresh.on
  /\ fresh.fed
  /\ IsPrefix(BOM, parser.buffer)

\* the fragment fed before this one ended with a carriage return and this one
\* starts with a line feed
SplitCrLf ==
  /\ ~fresh.on
  /\ Len(rest) < Len(doc)
  /\ doc[Len(doc) - Len(rest)] = CR
  /\ FedChunk # <<>>
  /\ FedChunk[1] = LF

C15_Step == (FeedStep /\ SplitCrLf) => parser' = feed(parser, Tail(FedChunk))

\* C15: a line feed at the start of a fragment that follows a carriage return
\* at the end of the fragment before is absorbed: the call does what it does
\* on the fragment without that line feed, so no blank line is resolved.
C15_SplitTerminatorAbsorbed == [][C15_Step]_vars

\* the payloads that carry both token counts
CarriesCounts(data) == data.prompt # Absent /\ data.completion # Absent

\* the latest two payloads were normalized and both carry token counts
TwoWithCounts ==
  /\ Len(pay) >= 2
  /\ ~normFailed
  /\ CarriesCounts(pay[Len(pay) - 1])
  /\ CarriesCounts(pay[Len(pay)])

\* C19: after two successive payloads that both carry token counts the
\* accumulator holds the counts and the model name of the second one.
C19_UsageLastWriterWins ==
  TwoWithCounts =>
    /\ usage.promptTokens = pay[Len(pay)].prompt
    /\ usage.completionTokens = pay[Len(pay)].completion
    /\ usage.responseModel = pay[Len(pay)].model

C19_Witness ==
  /\ TwoWithCounts
  /\ provider = "anthropic"
  /\ pay[Len(pay) - 1].prompt # pay[Len(pay)].prompt
  /\ pay[Len(pay) - 1].completion # pay[Len(pay)].completion
  /\ pay[Len(pay) - 1].model # pay[Len(pay)].model
  /\ usage.promptTokens = pay[Len(pay)].prompt

\* C20: when a normalizer fails or the byte source faults while the stream
\* is live, the consumer receives only deltas normalized before the fault,
\* in order, and the stream does not complete normally; once it has ended
\* with the error the consumer has received all of them.
C20_FaultIsTerminalError ==
  (llmError # "" /\ liveAtFault) =>
    /\ IsPrefix(got, Normalized)
    /\ gpc # "done"
    /\ (gpc = "thrown" => got = Normalized)

\* the same with no sentinel among the payloads handed out so far
C20_NoSentinel_FaultIsTerminalError ==
  (llmError # "" /\ liveAtFault /\ ~llmDone) =>
    /\ IsPrefix(got, Normalized)
    /\ gpc # "done"
    /\ (gpc = "thrown" => got = Normalized)

\* once llmDone is set, a step hands no payload to the normalizer and queues
\* no delta; the sentinel itself is never handed to the normalizer
C21_Step ==
  /\ \A i \in 1..Len(pay') : pay'[i] # Sentinel
  /\ llmDone => (pay' = pay /\ IsSuffix(dataQueue', dataQueue))

\* C21: the sentinel payload is not normalized, and after it has been
\* dispatched no later payload is passed to the normalizer or queued for the
\* consumer.
C21_SentinelEndsDispatch == [][C21_Step]_vars

\* once the consumer has closed the stream, a step reads no further fragment
\* and the reader is at rest or has ended
C22_Step == gpc = "closed" => (reads' = reads /\ rpc' \in {rpc, "ended"})

\* C22: after the consumer has closed the stream the reader is stopped: no
\* further fragment is read or fed.
C22_CloseStopsReader == [][C22_Step]_vars

\* the part of the document fed so far
FedInput == SubSeq(doc, 1, Len(doc) - Len(rest))

\* the retained buffer is the fed input without the characters resolved
BufferIsUnresolved == parser.buffer = SliceFrom(FedInput, resolved)

\* C23: after every feed call, returned or raised, the retained buffer is
\* exactly the part of the input not yet resolved into a line.
C23_BufferIsUnresolvedSuffix == resolved <= Len(FedInput) /\ BufferIsUnresolved

\* the same while the receive-callback has never raised
C23_NoRaise_BufferIsUnresolvedSuffix ==
  ~everRaised => (resolved <= Len(FedInput) /\ BufferIsUnresolved)

\* C24: a feed or a reset begun before an earlier feed call has returned
\* neither sees nor damages an intermediate state: once every call has
\* returned the parser is in the state it reaches when each call returns
\* before the next begins.
C24_CallsDoNotInterfere == AllReturned => parser = serial

\* the same when no call began while another was suspended
C24_NoOverlap_CallsDoNotInterfere == (AllReturned /\ ~overlapped) => parser = serial

RECURSIVE LfOnly(_)
\* the document with every line terminator written as one line feed: a line
\* feed right after a carriage return is dropped with it
LfOnly(d) ==
  IF d = <<>> THEN <<>>
  ELSE IF Head(d) = CR
    THEN <<LF>> \o LfOnly(IF Len(d) >= 2 /\ d[2] = LF THEN SubSeq(d, 3, Len(d))
                          ELSE Tail(d))
  ELSE <<Head(d)>> \o LfOnly(Tail(d))

\* one call is fed the whole document and returns
WholeDocumentFed == rest = doc /\ rest' = <<>> /\ ~everRaised'

C25_Step == WholeDocumentFed => parser'.out = WholeFeed(LfOnly(doc))

\* C25: within one buffer only a line feed right after a carriage return is
\* absorbed; every other line feed ends a line, so a feed call dispatches
\* what it dispatches on the document with its terminators written as
\* single line feeds.
C25_AbsorbIsOneShot == [][C25_Step]_vars

\* C26: over the feed calls of a parser whose receive-callback never raises,
\* the scan loop reads each character of the input at most once.
C26_ScanReadsOnce ==
  ~everRaised => \A k \in 1..Len(scanned) : scanned[k] <= 1

\* tokens i < j of the same key, i a preview, with no kv token from i to j - 1
SameKeyRun(i, j) ==
  /\ i < j
  /\ kvOut[i].type = "incomplete_kv"
  /\ kvOut[j].key = kvOut[i].key
  /\ \A m \in i..(j - 1) : kvOut[m].type # "kv"

\* successive previews of a key grow
PreviewsGrow ==
  \A i, j \in 1..Len(kvOut) :
    (SameKeyRun(i, j) /\ kvOut[j].type = "incomplete_kv")
      => IsPrefix(kvOut[i].value, kvOut[j].value)

\* the kv token of a key starts with the previews given for it
KvExtendsPreviews ==
  \A i, j \in 1..Len(kvOut) :
    (SameKeyRun(i, j) /\ kvOut[j].type = "kv")
      => IsPrefix(kvOut[i].value, kvOut[j].value)

\* C27: of the tokens parseKeyValueDeltas forwards, successive previews of a
\* key have the earlier value as a prefix of the later one, and so has the
\* kv token that ends them.
C27_PreviewsGrow == PreviewsGrow /\ KvExtendsPreviews

\* `$KEY:` at the start of s
StartsKeyLine(s) ==
  LET e == KeyEnd(s, 1)
  IN  CharAt(s, 0) = "$" /\ e > 1 /\ CharAt(s, e) = ":"

\* some line of the text s begins with `$KEY:`
HasKeyLine(s) ==
  \E i \in 0..(Len(s) - 1) :
    (i = 0 \/ s[i] = LF) /\ StartsKeyLine(SliceFrom(s, i))

\* the keys of the key-value lines of d that another line follows
TerminatedKeys(d) ==
  LET ps == SelectSeq([p \in 1..Len(d) |-> p], LAMBDA p : ~d[p].sep /\ p < Len(d))
  IN  [k \in 1..Len(ps) |-> d[ps[k]].key]

\* the keys of the kv tokens
KvKeys(tokens) ==
  LET ts == SelectSeq(tokens, LAMBDA t : t.type = "kv")
  IN  [k \in 1..Len(ts) |-> ts[k].key]

KeyLinesAreTokens ==
  /\ \A p \in 1..Len(kvTokens) :
       kvTokens[p].type = "kv" => ~HasKeyLine(kvTokens[p].value)
  /\ KvKeys(kvTokens) = TerminatedKeys(kvItems)

\* C28: for a buffer of key-value and separator lines, no kv token's value
\* holds a line that begins with `$KEY:`, and every key-value line that
\* another line follows gives its own kv token, empty values included.
C28_ValueEndsAtNextKey == (kvItems # <<>> /\ KvCalled) => KeyLinesAreTokens

\* the same for buffers whose key-value lines all have a value
C28_NonEmpty_ValueEndsAtNextKey ==
  (kvItems # <<>> /\ KvCalled /\ \A p \in 1..Len(kvItems) : kvItems[p] \notin KvEmptyItems)
    => KeyLinesAreTokens

\* the part of the document fed so far
FedPrefix == SubSeq(doc, 1, Len(doc) - Len(rest))

\* C29: for a document whose lines end with one line feed and that carries
\* no byte-order mark, after every feed call of any split the events
\* dispatched are those one feed call of the text fed so far dispatches (so
\* the whole document gives the same events however it is split), and the
\* saved scan offset is the length of the retained buffer.
C29_LfChunkingInvariance ==
  /\ parser.out = WholeFeed(FedPrefix)
  /\ parser.startingPosition = Len(parser.buffer)

\* a proper fragment was fed that dispatched an event and ended inside a line
C29_Witness ==
  /\ rest # <<>>
  /\ FedPrefix # <<>>
  /\ parser.out # <<>>
  /\ parser.buffer # <<>>
  /\ parser.startingPosition = Len(parser.buffer)

\* the settled value of source j is yielded, or a fault has ended the merge
TakenOrFaulted(j) ==
  (lastIndex = j /\ nextPromisses[j] # "value") \/ mergePos = "faulted"

\* C30: no starvation in the merge.  While the consumer keeps pulling, a
\* value whose pull has settled is eventually yielded (unless a fault ends
\* the merge first), and a fault of a source is eventually thrown by the
\* merge, also when a source of lower index has its next value ready at
\* every race.
C30_NoStarvation ==
  \A j \in Sources :
    /\ (nextPromisses[j] = "value") ~> TakenOrFaulted(j)
    /\ (nextPromisses[j] = "fault") ~> (mergePos = "faulted")

\* the same for the source of lowest index alone, whose settled pull the
\* next race takes
C30_Lowest_NoStarvation ==
  /\ (nextPromisses[1] = "value") ~> TakenOrFaulted(1)
  /\ (nextPromisses[1] = "fault") ~> (mergePos = "faulted")

\* the settled value of a source has waited while MaxVals values of other
\* sources were yielded
C30_Overtaken ==
  \E j \in Sources : nextPromisses[j] = "value" /\ overtaken[j] = MaxVals

RECURSIVE UsageAfter(_, _)
\* the accumulator after the normalizer of pr was called on the payloads ps
UsageAfter(pr, ps) ==
  IF ps = <<>> THEN NoUsage
  ELSE parseDelta(pr, ps[Len(ps)], UsageAfter(pr, SubSeq(ps, 1, Len(ps) - 1))).usage

\* C31: a normalizer call that raises leaves the accumulator as it was: the
\* model name and the counts are those the calls before it left.
C31_FailedCallKeepsUsage ==
  normFailed => usage = UsageAfter(provider, SubSeq(pay, 1, Len(pay) - 1))

\* the same for the Google and Anthropic normalizers
C31_GoogleAnthropic_FailedCallKeepsUsage ==
  (normFailed /\ provider \in {"google", "anthropic"})
    => usage = UsageAfter(provider, SubSeq(pay, 1, Len(pay) - 1))

\* the generator waits on its promise only with nothing to take
WaitsOnNothing ==
  gpc = "wait" => (dataQueue = <<>> /\ ~llmDone /\ llmError = "")

\* the deltas yielded are the first deltas queued, each once and in order
YieldsInDispatchOrder == IsPrefix(got, Normalized)

\* the generator has ended: it completed or threw
Terminated == gpc \in {"done", "thrown"}

\* C32: no lost wake-up between the reader and the generator.  The
\* generator waits only while the queue is empty and neither llmDone nor
\* llmError is set; every delta queued is eventually yielded, once and in
\* the order of dispatch; once the reader has ended (end of the body or a
\* fault) the generator terminates.
C32_NoLostWakeup ==
  /\ [](WaitsOnNothing /\ YieldsInDispatchOrder)
  /\ <>[](got = Normalized)
  /\ (rpc = "ended") ~> Terminated

\* the parts of C32 that do not speak of the deltas queued
C32_WaitAndTermination ==
  /\ [](WaitsOnNothing /\ YieldsInDispatchOrder)
  /\ (rpc = "ended") ~> Terminated

\* the sentinel was dispatched before the reader ended
SentinelSeen == llmDone /\ rpc # "ended"

\* C32 for streams whose events hold no sentinel
C32_NoSentinel_NoLostWakeup ==
  (<>SentinelSeen) \/ (<>[](got = Normalized))

\* the chunks written that carry bytes
Frames == SelectSeq(frames, LAMBDA f : f # <<>>)

\* the number of end frames written
DoneFrames == Len(SelectSeq(Frames, LAMBDA f : f = DoneFrame))

FramesInOrder ==
  /\ Len(Frames) >= taken
  /\ \A k \in 1..taken : Frames[k] = DeltaFrame(dataPrefix, deltas[k])
  /\ wpc = "loop" => Len(Frames) = taken
  /\ wpc = "terminated" =>
       /\ Len(Frames) = taken + 1
       /\ Frames[Len(Frames)] = DoneFrame
       /\ DoneFrames = 1
  /\ wpc \in {"caught", "closed"} =>
       /\ Len(Frames) = taken + 1
       /\ Frames[Len(Frames)] = ErrorFrame
  /\ ending = "fault" => DoneFrames = 0

\* C33: the response holds one frame per delta, in the order of production;
\* after a normal end exactly one end frame was written, and it is the last
\* frame; after a fault of the producer the error frame follows the frames
\* already written, and no end frame is written at any time.
C33_FramesInOrder == FramesInOrder

\* some delta is written as the end frame
DeltaIsDone ==
  \E k \in 1..Len(deltas) : DeltaFrame(dataPrefix, deltas[k]) = DoneFrame

\* the same for producers none of whose deltas is framed as the end frame
C33_Distinct_FramesInOrder == ~DeltaIsDone => FramesInOrder

\* the callers admitted at a clock reading from t up to, not including,
\* t + windowMs
AdmittedIn(t) ==
  Len(SelectSeq(admissions, LAMBDA a : t <= a /\ a < t + windowMs))

\* C34: in every window of length windowMs at most maxQPW callers are
\* admitted, whatever the number of callers and the order of their
\* wake-ups, and the queue of timestamps holds at most maxQPW entries.
C34_WindowBound ==
  /\ \A t \in 0..MaxClock : AdmittedIn(t) <= maxQPW
  /\ Len(requestTimestamps) <= maxQPW

\* callers were admitted in more than one window, and one waits on a full
\* queue
C34_Witness ==
  /\ Len(admissions) > maxQPW
  /\ Len(requestTimestamps) = maxQPW
  /\ \E c \in Callers : sleeping[c]

\* the tasks called and not settled yet
InFlight == { w \in 1..numWorkers : workers[w].pc = "awaits" }

SomeTaskFailed == \E k \in 1..Len(tasks) : started[k] > 0 /\ tasks[k] = "fail"

PoolBounded ==
  /\ Cardinality(InFlight) <= numWorkers
  /\ \A k \in 1..Len(tasks) : started[k] <= 1

PoolSettled == poolPc \in {"resolved", "rejected"}

\* C35: rateLimit has at most numWorkers tasks in flight and calls no task
\* twice; when it settles every task has been called once, also when tasks
\* failed; and it rejects exactly when a task failed.
C35_PoolRunsEveryTask ==
  /\ PoolBounded
  /\ PoolSettled => \A k \in 1..Len(tasks) : started[k] = 1
  /\ PoolSettled => (poolPc = "rejected" <=> SomeTaskFailed)

\* C35 without `every task has been called`
C35_Bounded_RejectsIffFailed ==
  /\ PoolBounded
  /\ PoolSettled => (poolPc = "rejected" <=> SomeTaskFailed)

\* the fetches in flight for a cache key
FetchesInFlight(key) ==
  { p \in 1..Len(fetches) : fetches[p].key = key /\ fetches[p].state = "pending" }

SingleFlight == \A key \in CacheKeys : Cardinality(FetchesInFlight(key)) <= 1

\* C36: for one pair of scopes and audiences, in whatever order their
\* elements are given, at most one token fetch is in flight at any time,
\* with an empty cache and with an expired token in the cache.
C36_SingleFlight == SingleFlight

\* the same while no token has expired and no fetch has failed
C36_Cold_SingleFlight ==
  (\A p \in 1..Len(fetches) : fetches[p].state \in {"pending", "fresh"})
    => SingleFlight

\* every segment task has returned or given up
TasksOver == \A s \in 1..Len(segTasks) : segTasks[s].pc \in {"done", "failed"}

AttemptsBounded ==
  \A s \in 1..Len(segTasks) : segTasks[s].attempts <= LastRetry + 1

\* C37: a segment is attempted at most eleven times; and once tts has ended
\* and no segment task is running any more, no file written by a segment
\* task is left, also when tasks were still running while tts unwound.
C37_TempFilesDeleted ==
  /\ AttemptsBounded
  /\ (ttsPc = "ended" /\ TasksOver) => onDisk = {}

\* the same when tts ends with a result
C37_Result_TempFilesDeleted ==
  /\ AttemptsBounded
  /\ (ttsPc = "ended" /\ ttsOutcome = "result") => onDisk = {}

(***************************************************************************)
(* Lines fed one by one: what the caller can tell from the lines it fed.   *)
(***************************************************************************)
IsBlankLine(l) == l.field = <<>>
IsDataLine(l) == l.field = <<"d", "a", "t", "a">>
IsEventLine(l) == l.field = <<"e", "v", "e", "n", "t">>
IsIdLine(l) == l.field = <<"i", "d">>
IsRetryLine(l) == l.field = <<"r", "e", "t", "r", "y">>

\* the greatest p < k for which Q(p) holds, 0 if there is none
LastBefore(k, Q(_)) ==
  LET S == { p \in 1..(k - 1) : Q(p) }
  IN  IF S = {} THEN 0 ELSE CHOOSE p \in S : \A q \in S : q <= p

\* the blank line before line k, 0 if there is none
BlankBefore(k) == LastBefore(k, LAMBDA p : IsBlankLine(fedLines[p]))

\* the values of the data lines between the blank line before line k and line k
DataSince(k) ==
  LET ps == SelectSeq([p \in 1..(k - 1) |-> p],
                      LAMBDA p : p > BlankBefore(k) /\ IsDataLine(fedLines[p]))
  IN  [j \in 1..Len(ps) |-> fedLines[ps[j]].value]

\* line k is a blank line with a data line since the blank line before it
DispatchesAt(k) == IsBlankLine(fedLines[k]) /\ DataSince(k) # <<>>

RECURSIVE JoinLines(_)
\* the values, each but the last followed by one line feed
JoinLines(vs) ==
  IF Len(vs) = 1 THEN vs[1] ELSE vs[1] \o <<LF>> \o JoinLines(Tail(vs))

\* the id pending at line k: that of the last id line since the last dispatch
PendingIdAt(k) ==
  LET d == LastBefore(k, LAMBDA p : DispatchesAt(p))
      i == LastBefore(k, LAMBDA p : IsIdLine(fedLines[p]))
  IN  IF i > d THEN Some(fedLines[i].value) ELSE Undefined

\* the event name pending at line k: that of the last event line since the
\* blank line before
PendingNameAt(k) ==
  LET e == LastBefore(k, LAMBDA p : IsEventLine(fedLines[p]))
  IN  IF e > BlankBefore(k) THEN Some(fedLines[e].value) ELSE Undefined

\* an empty name is carried as no name
NameCarried(name) == IF name = Some(<<>>) THEN Undefined ELSE name

\* the events dispatched so far, without the reconnect intervals
EventsOut == SelectSeq(parser.out, LAMBDA e : e.type = "event")

\* the blank lines that dispatch, in order
DispatchLines ==
  SelectSeq([p \in 1..Len(fedLines) |-> p], LAMBDA p : DispatchesAt(p))

LastLineIsBlank == fedLines # <<>> /\ IsBlankLine(fedLines[Len(fedLines)])

\* what is left pending after a blank line
ClearedAfterBlank ==
  LastLineIsBlank =>
    /\ parser.data = <<>>
    /\ DispatchesAt(Len(fedLines)) => parser.eventId = Undefined

\* C16 as stated: one event per blank line that has a data line since the
\* blank line before it, with the data values joined by line feeds, the
\* pending id and the pending event name as they are; pending data and id are
\* cleared by the dispatch.
C16_EventAtBlankLine ==
  /\ EventsOut = [j \in 1..Len(DispatchLines) |->
                    [type  |-> "event",
                     id    |-> PendingIdAt(DispatchLines[j]),
                     event |-> PendingNameAt(DispatchLines[j]),
                     data  |-> JoinLines(DataSince(DispatchLines[j])),
                     value |-> 0]]
  /\ ClearedAfterBlank

\* C16, amended: the same, with an empty pending event name carried as no
\* name (undefined).
C16_EventAtBlankLine_Amended ==
  /\ EventsOut = [j \in 1..Len(DispatchLines) |->
                    [type  |-> "event",
                     id    |-> PendingIdAt(DispatchLines[j]),
                     event |-> NameCarried(PendingNameAt(DispatchLines[j])),
                     data  |-> JoinLines(DataSince(DispatchLines[j])),
                     value |-> 0]]
  /\ ClearedAfterBlank

C16_Witness ==
  /\ LastLineIsBlank
  /\ Len(EventsOut) = 1
  /\ EventsOut[1].id # Undefined
  /\ EventsOut[1].event # Undefined
  /\ Len(DataSince(Len(fedLines))) = 1
  /\ parser.eventId = Undefined

\* C17: after every blank line no event name is pending, a blank line without
\* data dispatches nothing, and an event has a name only if an event line
\* stands between the blank line before it and its own blank line.
C17_NameClearedAtBlankLine ==
  /\ LastLineIsBlank => parser.eventName = Undefined
  /\ Len(EventsOut) = Len(DispatchLines)
  /\ \A j \in 1..Len(EventsOut) :
        (j <= Len(DispatchLines) /\ EventsOut[j].event # Undefined) =>
          \E p \in (BlankBefore(DispatchLines[j]) + 1)..(DispatchLines[j] - 1) :
            IsEventLine(fedLines[p])

C17_Witness ==
  /\ Len(fedLines) = 4
  /\ IsEventLine(fedLines[1]) /\ fedLines[1].value # <<>>
  /\ IsBlankLine(fedLines[2])
  /\ IsDataLine(fedLines[3])
  /\ IsBlankLine(fedLines[4])
  /\ Len(EventsOut) = 1
  /\ EventsOut[1].event = Undefined

\* a non-empty string of decimal digits
IsNonNegativeInteger(v) == v # <<>> /\ \A p \in 1..Len(v) : IsDigit(v[p])

\* the retry lines fed so far whose value is a non-negative integer, in order
ValidRetryLines ==
  SelectSeq(fedLines, LAMBDA l : IsRetryLine(l) /\ IsNonNegativeInteger(l.value))

\* C18: the reconnect intervals dispatched are those of the retry lines whose
\* value is a non-negative integer, in order, each with that integer; every
\* other retry line dispatches nothing.
C18_RetryOnlyNonNegativeInteger ==
  SelectSeq(parser.out, LAMBDA e : e.type = "reconnect-interval")
    = [j \in 1..Len(ValidRetryLines) |->
         [type |-> "reconnect-interval", id |-> Undefined, event |-> Undefined,
          data |-> <<>>, value |-> DigitsValue(ValidRetryLines[j].value, 0, 0).val]]

\* a stream of one provider whose payloads are handed to its normalizer
UsageInit ==
  /\ doc = <<>>
  /\ rest = doc
  /\ parser = ResetState
  /\ fresh = NoFresh
  /\ fedLines = <<>>
  /\ kvDoc = <<>>
  /\ kvRest = <<>>
  /\ kvBuffer = <<>>
  /\ kvOut = <<>>
  /\ kvFailed = FALSE
  /\ kvIn = <<>>
  /\ kvTokens = <<>>
  /\ kvItems = <<>>
  /\ answers = [i \in Sources |-> <<>>]
  /\ reqs = [i \in Sources |-> 0]
  /\ slotReq = [i \in Sources |-> 0]
  /\ retired = [i \in Sources |-> FALSE]
  /\ consumed = [i \in Sources |-> 0]
  /\ count = 0
  /\ arrived = <<>>
  /\ raceWinner = 0
  /\ mpc = "idle"
  /\ yielded = [i \in Sources |-> <<>>]
  /\ lateYield = FALSE
  /\ staleYield = FALSE
  /\ retSent = [i \in Sources |-> 0]
  /\ error = 0
  /\ provider \in Providers
  /\ usage = NoUsage
  /\ pay = <<>>
  /\ normFailed = FALSE
  /\ rpc = "idle"
  /\ reads = 0
  /\ fragment = <<>>
  /\ dataQueue = <<>>
  /\ llmDone = FALSE
  /\ llmError = ""
  /\ onDataCallback = FALSE
  /\ gpc = "start"
  /\ got = <<>>
  /\ liveAtFault = FALSE
  /\ resolved = 0
  /\ everRaised = FALSE
  /\ scanned = <<>>
  /\ calls = NoCalls
  /\ serial = ResetState
  /\ overlapped = FALSE
  /\ nextPromisses = [i \in Sources |-> "unset"]
  /\ mergePos = "idle"
  /\ winner = 0
  /\ lastIndex = 0
  /\ overtaken = [i \in Sources |-> 0]
  /\ returned = [i \in Sources |-> FALSE]
  /\ respKind = "none"
  /\ dataPrefix = <<>>
  /\ deltas = <<>>
  /\ ending = "end"
  /\ taken = 0
  /\ frames = <<>>
  /\ wpc = "idle"
  /\ maxQPW = 0
  /\ windowMs = 0
  /\ clock = 0
  /\ requestTimestamps = <<>>
  /\ sleeping = <<>>
  /\ admissions = <<>>
  /\ numWorkers = 0
  /\ tasks = <<>>
  /\ taskIter = 0
  /\ workers = <<>>
  /\ started = <<>>
  /\ poolPc = "idle"
  /\ accessTokenCache = <<>>
  /\ fetches = <<>>
  /\ getCalls = <<>>
  /\ numSegments = 0
  /\ segTasks = <<>>
  /\ filesToDelete = <<>>
  /\ onDisk = {}
  /\ ttsPc = "idle"
  /\ awaited = 0
  /\ deleteIndex = 0
  /\ ttsOutcome = ""

UsageNext == \E data \in PayloadsOf(provider) : Normalize(data)

UsageSpec == UsageInit /\ [][UsageNext]_vars

\* one llmStream call of the OpenAI provider and its consumer
LlmInit ==
  /\ doc = <<>>
  /\ rest = doc
  /\ parser = ResetState
  /\ fresh = NoFresh
  /\ fedLines = <<>>
  /\ kvDoc = <<>>
  /\ kvRest = <<>>
  /\ kvBuffer = <<>>
  /\ kvOut = <<>>
  /\ kvFailed = FALSE
  /\ kvIn = <<>>
  /\ kvTokens = <<>>
  /\ kvItems = <<>>
  /\ answers = [i \in Sources |-> <<>>]
  /\ reqs = [i \in Sources |-> 0]
  /\ slotReq = [i \in Sources |-> 0]
  /\ retired = [i \in Sources |-> FALSE]
  /\ consumed = [i \in Sources |-> 0]
  /\ count = 0
  /\ arrived = <<>>
  /\ raceWinner = 0
  /\ mpc = "idle"
  /\ yielded = [i \in Sources |-> <<>>]
  /\ lateYield = FALSE
  /\ staleYield = FALSE
  /\ retSent = [i \in Sources |-> 0]
  /\ error = 0
  /\ provider = "openai"
  /\ usage = NoUsage
  /\ pay = <<>>
  /\ normFailed = FALSE
  /\ rpc = "idle"
  /\ reads = 0
  /\ fragment = <<>>
  /\ dataQueue = <<>>
  /\ llmDone = FALSE
  /\ llmError = ""
  /\ onDataCallback = FALSE
  /\ gpc = "start"
  /\ got = <<>>
  /\ liveAtFault = FALSE
  /\ resolved = 0
  /\ everRaised = FALSE
  /\ scanned = <<>>
  /\ calls = NoCalls
  /\ serial = ResetState
  /\ overlapped = FALSE
  /\ nextPromisses = [i \in Sources |-> "unset"]
  /\ mergePos = "idle"
  /\ winner = 0
  /\ lastIndex = 0
  /\ overtaken = [i \in Sources |-> 0]
  /\ returned = [i \in Sources |-> FALSE]
  /\ respKind = "none"
  /\ dataPrefix = <<>>
  /\ deltas = <<>>
  /\ ending = "end"
  /\ taken = 0
  /\ frames = <<>>
  /\ wpc = "idle"
  /\ maxQPW = 0
  /\ windowMs = 0
  /\ clock = 0
  /\ requestTimestamps = <<>>
  /\ sleeping = <<>>
  /\ admissions = <<>>
  /\ numWorkers = 0
  /\ tasks = <<>>
  /\ taskIter = 0
  /\ workers = <<>>
  /\ started = <<>>
  /\ poolPc = "idle"
  /\ accessTokenCache = <<>>
  /\ fetches = <<>>
  /\ getCalls = <<>>
  /\ numSegments = 0
  /\ segTasks = <<>>
  /\ filesToDelete = <<>>
  /\ onDisk = {}
  /\ ttsPc = "idle"
  /\ awaited = 0
  /\ deleteIndex = 0
  /\ ttsOutcome = ""

LlmNext ==
  \/ Pull
  \/ Close
  \/ \E c \in Fragments : ReadChunk(c)
  \/ OnParse
  \/ ReadDone
  \/ ReadFault

LlmSpec == LlmInit /\ [][LlmNext]_vars

\* the consumer only pulls
LlmPullNext ==
  \/ Pull
  \/ \E c \in Fragments : ReadChunk(c)
  \/ OnParse
  \/ ReadDone
  \/ ReadFault

\* llmReader.read() settles: with a fragment, with the end of the body or
\* with a rejection
ReadSettles == (\E c \in Fragments : ReadChunk(c)) \/ ReadDone \/ ReadFault

\* The consumer keeps pulling, every read settles, and the parser goes on
\* through the fragment it was fed.
LlmFairSpec ==
  /\ LlmInit
  /\ [][LlmPullNext]_vars
  /\ WF_vars(Pull)
  /\ WF_vars(ReadSettles)
  /\ WF_vars(OnParse)

\* a parser fed a document in fragments, with a receive-callback that may
\* raise
SseCallInit ==
  /\ doc \in CallDocs
  /\ rest = doc
  /\ parser = ResetState
  /\ fresh = NoFresh
  /\ fedLines = <<>>
  /\ kvDoc = <<>>
  /\ kvRest = <<>>
  /\ kvBuffer = <<>>
  /\ kvOut = <<>>
  /\ kvFailed = FALSE
  /\ kvIn = <<>>
  /\ kvTokens = <<>>
  /\ kvItems = <<>>
  /\ answers = [i \in Sources |-> <<>>]
  /\ reqs = [i \in Sources |-> 0]
  /\ slotReq = [i \in Sources |-> 0]
  /\ retired = [i \in Sources |-> FALSE]
  /\ consumed = [i \in Sources |-> 0]
  /\ count = 0
  /\ arrived = <<>>
  /\ raceWinner = 0
  /\ mpc = "idle"
  /\ yielded = [i \in Sources |-> <<>>]
  /\ lateYield = FALSE
  /\ staleYield = FALSE
  /\ retSent = [i \in Sources |-> 0]
  /\ error = 0
  /\ provider = "none"
  /\ usage = NoUsage
  /\ pay = <<>>
  /\ normFailed = FALSE
  /\ rpc = "idle"
  /\ reads = 0
  /\ fragment = <<>>
  /\ dataQueue = <<>>
  /\ llmDone = FALSE
  /\ llmError = ""
  /\ onDataCallback = FALSE
  /\ gpc = "start"
  /\ got = <<>>
  /\ liveAtFault = FALSE
  /\ resolved = 0
  /\ everRaised = FALSE
  /\ scanned = [k \in 1..Len(doc) |-> 0]
  /\ calls = NoCalls
  /\ serial = ResetState
  /\ overlapped = FALSE
  /\ nextPromisses = [i \in Sources |-> "unset"]
  /\ mergePos = "idle"
  /\ winner = 0
  /\ lastIndex = 0
  /\ overtaken = [i \in Sources |-> 0]
  /\ returned = [i \in Sources |-> FALSE]
  /\ respKind = "none"
  /\ dataPrefix = <<>>
  /\ deltas = <<>>
  /\ ending = "end"
  /\ taken = 0
  /\ frames = <<>>
  /\ wpc = "idle"
  /\ maxQPW = 0
  /\ windowMs = 0
  /\ clock = 0
  /\ requestTimestamps = <<>>
  /\ sleeping = <<>>
  /\ admissions = <<>>
  /\ numWorkers = 0
  /\ tasks = <<>>
  /\ taskIter = 0
  /\ workers = <<>>
  /\ started = <<>>
  /\ poolPc = "idle"
  /\ accessTokenCache = <<>>
  /\ fetches = <<>>
  /\ getCalls = <<>>
  /\ numSegments = 0
  /\ segTasks = <<>>
  /\ filesToDelete = <<>>
  /\ onDisk = {}
  /\ ttsPc = "idle"
  /\ awaited = 0
  /\ deleteIndex = 0
  /\ ttsOutcome = ""

SseCallNext == \E n \in 1..Len(rest), raises \in BOOLEAN : FeedCall(n, raises)

SseCallSpec == SseCallInit /\ [][SseCallNext]_vars

\* feed calls and a reset on one parser, begun without awaiting the call
\* before
SseAsyncInit ==
  /\ doc \in ResetDocs
  /\ rest = doc
  /\ parser = ResetState
  /\ fresh = NoFresh
  /\ fedLines = <<>>
  /\ kvDoc = <<>>
  /\ kvRest = <<>>
  /\ kvBuffer = <<>>
  /\ kvOut = <<>>
  /\ kvFailed = FALSE
  /\ kvIn = <<>>
  /\ kvTokens = <<>>
  /\ kvItems = <<>>
  /\ answers = [i \in Sources |-> <<>>]
  /\ reqs = [i \in Sources |-> 0]
  /\ slotReq = [i \in Sources |-> 0]
  /\ retired = [i \in Sources |-> FALSE]
  /\ consumed = [i \in Sources |-> 0]
  /\ count = 0
  /\ arrived = <<>>
  /\ raceWinner = 0
  /\ mpc = "idle"
  /\ yielded = [i \in Sources |-> <<>>]
  /\ lateYield = FALSE
  /\ staleYield = FALSE
  /\ retSent = [i \in Sources |-> 0]
  /\ error = 0
  /\ provider = "none"
  /\ usage = NoUsage
  /\ pay = <<>>
  /\ normFailed = FALSE
  /\ rpc = "idle"
  /\ reads = 0
  /\ fragment = <<>>
  /\ dataQueue = <<>>
  /\ llmDone = FALSE
  /\ llmError = ""
  /\ onDataCallback = FALSE
  /\ gpc = "start"
  /\ got = <<>>
  /\ liveAtFault = FALSE
  /\ resolved = 0
  /\ everRaised = FALSE
  /\ scanned = <<>>
  /\ calls = NoCalls
  /\ serial = ResetState
  /\ overlapped = FALSE
  /\ nextPromisses = [i \in Sources |-> "unset"]
  /\ mergePos = "idle"
  /\ winner = 0
  /\ lastIndex = 0
  /\ overtaken = [i \in Sources |-> 0]
  /\ returned = [i \in Sources |-> FALSE]
  /\ respKind = "none"
  /\ dataPrefix = <<>>
  /\ deltas = <<>>
  /\ ending = "end"
  /\ taken = 0
  /\ frames = <<>>
  /\ wpc = "idle"
  /\ maxQPW = 0
  /\ windowMs = 0
  /\ clock = 0
  /\ requestTimestamps = <<>>
  /\ sleeping = <<>>
  /\ admissions = <<>>
  /\ numWorkers = 0
  /\ tasks = <<>>
  /\ taskIter = 0
  /\ workers = <<>>
  /\ started = <<>>
  /\ poolPc = "idle"
  /\ accessTokenCache = <<>>
  /\ fetches = <<>>
  /\ getCalls = <<>>
  /\ numSegments = 0
  /\ segTasks = <<>>
  /\ filesToDelete = <<>>
  /\ onDisk = {}
  /\ ttsPc = "idle"
  /\ awaited = 0
  /\ deleteIndex = 0
  /\ ttsOutcome = ""

SseAsyncNext ==
  \/ \E id \in CallIds, n \in 1..Len(rest) : Begin(id, n)
  \/ \E id \in CallIds : ResumeInner(id)
  \/ \E id \in CallIds : ResumeOuter(id)
  \/ ResetDuring

SseAsyncSpec == SseAsyncInit /\ [][SseAsyncNext]_vars

\* parseKeyValueDelta called on a buffer of key-value and separator lines
KvBufferInit ==
  /\ doc = <<>>
  /\ rest = <<>>
  /\ parser = ResetState
  /\ fresh = NoFresh
  /\ fedLines = <<>>
  /\ kvItems \in KvBuffers(MaxItems)
  /\ kvDoc = KvText(kvItems)
  /\ kvRest = kvDoc
  /\ kvBuffer = <<>>
  /\ kvOut = <<>>
  /\ kvFailed = FALSE
  /\ kvIn = <<>>
  /\ kvTokens = <<>>
  /\ answers = [i \in Sources |-> <<>>]
  /\ reqs = [i \in Sources |-> 0]
  /\ slotReq = [i \in Sources |-> 0]
  /\ retired = [i \in Sources |-> FALSE]
  /\ consumed = [i \in Sources |-> 0]
  /\ count = 0
  /\ arrived = <<>>
  /\ raceWinner = 0
  /\ mpc = "idle"
  /\ yielded = [i \in Sources |-> <<>>]
  /\ lateYield = FALSE
  /\ staleYield = FALSE
  /\ retSent = [i \in Sources |-> 0]
  /\ error = 0
  /\ provider = "none"
  /\ usage = NoUsage
  /\ pay = <<>>
  /\ normFailed = FALSE
  /\ rpc = "idle"
  /\ reads = 0
  /\ fragment = <<>>
  /\ dataQueue = <<>>
  /\ llmDone = FALSE
  /\ llmError = ""
  /\ onDataCallback = FALSE
  /\ gpc = "start"
  /\ got = <<>>
  /\ liveAtFault = FALSE
  /\ resolved = 0
  /\ everRaised = FALSE
  /\ scanned = <<>>
  /\ calls = NoCalls
  /\ serial = ResetState
  /\ overlapped = FALSE
  /\ nextPromisses = [i \in Sources |-> "unset"]
  /\ mergePos = "idle"
  /\ winner = 0
  /\ lastIndex = 0
  /\ overtaken = [i \in Sources |-> 0]
  /\ returned = [i \in Sources |-> FALSE]
  /\ respKind = "none"
  /\ dataPrefix = <<>>
  /\ deltas = <<>>
  /\ ending = "end"
  /\ taken = 0
  /\ frames = <<>>
  /\ wpc = "idle"
  /\ maxQPW = 0
  /\ windowMs = 0
  /\ clock = 0
  /\ requestTimestamps = <<>>
  /\ sleeping = <<>>
  /\ admissions = <<>>
  /\ numWorkers = 0
  /\ tasks = <<>>
  /\ taskIter = 0
  /\ workers = <<>>
  /\ started = <<>>
  /\ poolPc = "idle"
  /\ accessTokenCache = <<>>
  /\ fetches = <<>>
  /\ getCalls = <<>>
  /\ numSegments = 0
  /\ segTasks = <<>>
  /\ filesToDelete = <<>>
  /\ onDisk = {}
  /\ ttsPc = "idle"
  /\ awaited = 0
  /\ deleteIndex = 0
  /\ ttsOutcome = ""

KvBufferNext == KvWhole

KvBufferSpec == KvBufferInit /\ [][KvBufferNext]_vars

\* a fresh parser and a document whose lines end with one line feed
SseLfInit ==
  /\ doc \in SseLfDocs
  /\ rest = doc
  /\ parser = ResetState
  /\ fresh = NoFresh
  /\ fedLines = <<>>
  /\ kvDoc = <<>>
  /\ kvRest = <<>>
  /\ kvBuffer = <<>>
  /\ kvOut = <<>>
  /\ kvFailed = FALSE
  /\ kvIn = <<>>
  /\ kvTokens = <<>>
  /\ kvItems = <<>>
  /\ answers = [i \in Sources |-> <<>>]
  /\ reqs = [i \in Sources |-> 0]
  /\ slotReq = [i \in Sources |-> 0]
  /\ retired = [i \in Sources |-> FALSE]
  /\ consumed = [i \in Sources |-> 0]
  /\ count = 0
  /\ arrived = <<>>
  /\ raceWinner = 0
  /\ mpc = "idle"
  /\ yielded = [i \in Sources |-> <<>>]
  /\ lateYield = FALSE
  /\ staleYield = FALSE
  /\ retSent = [i \in Sources |-> 0]
  /\ error = 0
  /\ provider = "none"
  /\ usage = NoUsage
  /\ pay = <<>>
  /\ normFailed = FALSE
  /\ rpc = "idle"
  /\ reads = 0
  /\ fragment = <<>>
  /\ dataQueue = <<>>
  /\ llmDone = FALSE
  /\ llmError = ""
  /\ onDataCallback = FALSE
  /\ gpc = "start"
  /\ got = <<>>
  /\ liveAtFault = FALSE
  /\ resolved = 0
  /\ everRaised = FALSE
  /\ scanned = <<>>
  /\ calls = NoCalls
  /\ serial = ResetState
  /\ overlapped = FALSE
  /\ nextPromisses = [i \in Sources |-> "unset"]
  /\ mergePos = "idle"
  /\ winner = 0
  /\ lastIndex = 0
  /\ overtaken = [i \in Sources |-> 0]
  /\ returned = [i \in Sources |-> FALSE]
  /\ respKind = "none"
  /\ dataPrefix = <<>>
  /\ deltas = <<>>
  /\ ending = "end"
  /\ taken = 0
  /\ frames = <<>>
  /\ wpc = "idle"
  /\ maxQPW = 0
  /\ windowMs = 0
  /\ clock = 0
  /\ requestTimestamps = <<>>
  /\ sleeping = <<>>
  /\ admissions = <<>>
  /\ numWorkers = 0
  /\ tasks = <<>>
  /\ taskIter = 0
  /\ workers = <<>>
  /\ started = <<>>
  /\ poolPc = "idle"
  /\ accessTokenCache = <<>>
  /\ fetches = <<>>
  /\ getCalls = <<>>
  /\ numSegments = 0
  /\ segTasks = <<>>
  /\ filesToDelete = <<>>
  /\ onDisk = {}
  /\ ttsPc = "idle"
  /\ awaited = 0
  /\ deleteIndex = 0
  /\ ttsOutcome = ""

SseLfNext == \E n \in 1..Len(rest) : Feed(n)

SseLfSpec == SseLfInit /\ [][SseLfNext]_vars

\* mergeGenerators called on sources that never run out; the consumer has
\* not pulled yet
RaceInit ==
  /\ doc = <<>>
  /\ rest = <<>>
  /\ parser = ResetState
  /\ fresh = NoFresh
  /\ fedLines = <<>>
  /\ kvDoc = <<>>
  /\ kvRest = <<>>
  /\ kvBuffer = <<>>
  /\ kvOut = <<>>
  /\ kvFailed = FALSE
  /\ kvIn = <<>>
  /\ kvTokens = <<>>
  /\ kvItems = <<>>
  /\ answers = [i \in Sources |-> <<>>]
  /\ reqs = [i \in Sources |-> 0]
  /\ slotReq = [i \in Sources |-> 0]
  /\ retired = [i \in Sources |-> FALSE]
  /\ consumed = [i \in Sources |-> 0]
  /\ count = 0
  /\ arrived = <<>>
  /\ raceWinner = 0
  /\ mpc = "idle"
  /\ yielded = [i \in Sources |-> <<>>]
  /\ lateYield = FALSE
  /\ staleYield = FALSE
  /\ retSent = [i \in Sources |-> 0]
  /\ error = 0
  /\ provider = "none"
  /\ usage = NoUsage
  /\ pay = <<>>
  /\ normFailed = FALSE
  /\ rpc = "idle"
  /\ reads = 0
  /\ fragment = <<>>
  /\ dataQueue = <<>>
  /\ llmDone = FALSE
  /\ llmError = ""
  /\ onDataCallback = FALSE
  /\ gpc = "start"
  /\ got = <<>>
  /\ liveAtFault = FALSE
  /\ resolved = 0
  /\ everRaised = FALSE
  /\ scanned = <<>>
  /\ calls = NoCalls
  /\ serial = ResetState
  /\ overlapped = FALSE
  /\ nextPromisses = [i \in Sources |-> "unset"]
  /\ mergePos = "init"
  /\ winner = 0
  /\ lastIndex = 0
  /\ overtaken = [i \in Sources |-> 0]
  /\ returned = [i \in Sources |-> FALSE]
  /\ respKind = "none"
  /\ dataPrefix = <<>>
  /\ deltas = <<>>
  /\ ending = "end"
  /\ taken = 0
  /\ frames = <<>>
  /\ wpc = "idle"
  /\ maxQPW = 0
  /\ windowMs = 0
  /\ clock = 0
  /\ requestTimestamps = <<>>
  /\ sleeping = <<>>
  /\ admissions = <<>>
  /\ numWorkers = 0
  /\ tasks = <<>>
  /\ taskIter = 0
  /\ workers = <<>>
  /\ started = <<>>
  /\ poolPc = "idle"
  /\ accessTokenCache = <<>>
  /\ fetches = <<>>
  /\ getCalls = <<>>
  /\ numSegments = 0
  /\ segTasks = <<>>
  /\ filesToDelete = <<>>
  /\ onDisk = {}
  /\ ttsPc = "idle"
  /\ awaited = 0
  /\ deleteIndex = 0
  /\ ttsOutcome = ""

RaceNext ==
  \/ RaceStart
  \/ \E i \in Sources : PullSettle(i)
  \/ RaceResume
  \/ ConsumerPull

RaceSpec == RaceInit /\ [][RaceNext]_vars

\* Every pending pull settles, the microtask that resumes the merge runs,
\* and the consumer goes on pulling.
RaceFairSpec ==
  /\ RaceInit
  /\ [][RaceNext]_vars
  /\ \A i \in Sources : WF_vars(PullSettle(i))
  /\ WF_vars(RaceStart)
  /\ WF_vars(RaceResume)
  /\ WF_vars(ConsumerPull)

\* a response writer at the start of its loop, and what its producer will do
RespInit ==
  /\ doc = <<>>
  /\ rest = <<>>
  /\ parser = ResetState
  /\ fresh = NoFresh
  /\ fedLines = <<>>
  /\ kvDoc = <<>>
  /\ kvRest = <<>>
  /\ kvBuffer = <<>>
  /\ kvOut = <<>>
  /\ kvFailed = FALSE
  /\ kvIn = <<>>
  /\ kvTokens = <<>>
  /\ kvItems = <<>>
  /\ answers = [i \in Sources |-> <<>>]
  /\ reqs = [i \in Sources |-> 0]
  /\ slotReq = [i \in Sources |-> 0]
  /\ retired = [i \in Sources |-> FALSE]
  /\ consumed = [i \in Sources |-> 0]
  /\ count = 0
  /\ arrived = <<>>
  /\ raceWinner = 0
  /\ mpc = "idle"
  /\ yielded = [i \in Sources |-> <<>>]
  /\ lateYield = FALSE
  /\ staleYield = FALSE
  /\ retSent = [i \in Sources |-> 0]
  /\ error = 0
  /\ provider = "none"
  /\ usage = NoUsage
  /\ pay = <<>>
  /\ normFailed = FALSE
  /\ rpc = "idle"
  /\ reads = 0
  /\ fragment = <<>>
  /\ dataQueue = <<>>
  /\ llmDone = FALSE
  /\ llmError = ""
  /\ onDataCallback = FALSE
  /\ gpc = "start"
  /\ got = <<>>
  /\ liveAtFault = FALSE
  /\ resolved = 0
  /\ everRaised = FALSE
  /\ scanned = <<>>
  /\ calls = NoCalls
  /\ serial = ResetState
  /\ overlapped = FALSE
  /\ nextPromisses = [i \in Sources |-> "unset"]
  /\ mergePos = "idle"
  /\ winner = 0
  /\ lastIndex = 0
  /\ overtaken = [i \in Sources |-> 0]
  /\ returned = [i \in Sources |-> FALSE]
  /\ respKind \in {"generator", "callback"}
  /\ dataPrefix \in Prefixes
  /\ deltas \in UNION { [1..n -> ProducerDeltas] : n \in 0..MaxDeltas }
  /\ ending \in {"end", "fault"}
  /\ taken = 0
  /\ frames = <<>>
  /\ wpc = "loop"
  /\ maxQPW = 0
  /\ windowMs = 0
  /\ clock = 0
  /\ requestTimestamps = <<>>
  /\ sleeping = <<>>
  /\ admissions = <<>>
  /\ numWorkers = 0
  /\ tasks = <<>>
  /\ taskIter = 0
  /\ workers = <<>>
  /\ started = <<>>
  /\ poolPc = "idle"
  /\ accessTokenCache = <<>>
  /\ fetches = <<>>
  /\ getCalls = <<>>
  /\ numSegments = 0
  /\ segTasks = <<>>
  /\ filesToDelete = <<>>
  /\ onDisk = {}
  /\ ttsPc = "idle"
  /\ awaited = 0
  /\ deleteIndex = 0
  /\ ttsOutcome = ""

RespNext ==
  \/ WriteDelta
  \/ WriteDone
  \/ WriteError
  \/ PassThrough

RespSpec == RespInit /\ [][RespNext]_vars

\* a limiter as constructed, and callers that have not called yet
LimInit ==
  /\ doc = <<>>
  /\ rest = doc
  /\ parser = ResetState
  /\ fresh = NoFresh
  /\ fedLines = <<>>
  /\ kvDoc = <<>>
  /\ kvRest = <<>>
  /\ kvBuffer = <<>>
  /\ kvOut = <<>>
  /\ kvFailed = FALSE
  /\ kvIn = <<>>
  /\ kvTokens = <<>>
  /\ kvItems = <<>>
  /\ answers = [i \in Sources |-> <<>>]
  /\ reqs = [i \in Sources |-> 0]
  /\ slotReq = [i \in Sources |-> 0]
  /\ retired = [i \in Sources |-> FALSE]
  /\ consumed = [i \in Sources |-> 0]
  /\ count = 0
  /\ arrived = <<>>
  /\ raceWinner = 0
  /\ mpc = "idle"
  /\ yielded = [i \in Sources |-> <<>>]
  /\ lateYield = FALSE
  /\ staleYield = FALSE
  /\ retSent = [i \in Sources |-> 0]
  /\ error = 0
  /\ provider = "none"
  /\ usage = NoUsage
  /\ pay = <<>>
  /\ normFailed = FALSE
  /\ rpc = "idle"
  /\ reads = 0
  /\ fragment = <<>>
  /\ dataQueue = <<>>
  /\ llmDone = FALSE
  /\ llmError = ""
  /\ onDataCallback = FALSE
  /\ gpc = "start"
  /\ got = <<>>
  /\ liveAtFault = FALSE
  /\ resolved = 0
  /\ everRaised = FALSE
  /\ scanned = <<>>
  /\ calls = NoCalls
  /\ serial = ResetState
  /\ overlapped = FALSE
  /\ nextPromisses = [i \in Sources |-> "unset"]
  /\ mergePos = "idle"
  /\ winner = 0
  /\ lastIndex = 0
  /\ overtaken = [i \in Sources |-> 0]
  /\ returned = [i \in Sources |-> FALSE]
  /\ respKind = "none"
  /\ dataPrefix = <<>>
  /\ deltas = <<>>
  /\ ending = "end"
  /\ taken = 0
  /\ frames = <<>>
  /\ wpc = "idle"
  /\ maxQPW \in 1..MaxQPW
  /\ windowMs \in 1..MaxWindow
  /\ clock = 0
  /\ requestTimestamps = <<>>
  /\ sleeping = [c \in Callers |-> FALSE]
  /\ admissions = <<>>
  /\ numWorkers = 0
  /\ tasks = <<>>
  /\ taskIter = 0
  /\ workers = <<>>
  /\ started = <<>>
  /\ poolPc = "idle"
  /\ accessTokenCache = <<>>
  /\ fetches = <<>>
  /\ getCalls = <<>>
  /\ numSegments = 0
  /\ segTasks = <<>>
  /\ filesToDelete = <<>>
  /\ onDisk = {}
  /\ ttsPc = "idle"
  /\ awaited = 0
  /\ deleteIndex = 0
  /\ ttsOutcome = ""

LimNext ==
  \/ \E c \in Callers : WaitForAvailability(c)
  \/ \E c \in Callers : Wake(c)
  \/ Tick

LimSpec == LimInit /\ [][LimNext]_vars

\* rateLimit about to be called on some tasks
PoolInit ==
  /\ doc = <<>>
  /\ rest = doc
  /\ parser = ResetState
  /\ fresh = NoFresh
  /\ fedLines = <<>>
  /\ kvDoc = <<>>
  /\ kvRest = <<>>
  /\ kvBuffer = <<>>
  /\ kvOut = <<>>
  /\ kvFailed = FALSE
  /\ kvIn = <<>>
  /\ kvTokens = <<>>
  /\ kvItems = <<>>
  /\ answers = [i \in Sources |-> <<>>]
  /\ reqs = [i \in Sources |-> 0]
  /\ slotReq = [i \in Sources |-> 0]
  /\ retired = [i \in Sources |-> FALSE]
  /\ consumed = [i \in Sources |-> 0]
  /\ count = 0
  /\ arrived = <<>>
  /\ raceWinner = 0
  /\ mpc = "idle"
  /\ yielded = [i \in Sources |-> <<>>]
  /\ lateYield = FALSE
  /\ staleYield = FALSE
  /\ retSent = [i \in Sources |-> 0]
  /\ error = 0
  /\ provider = "none"
  /\ usage = NoUsage
  /\ pay = <<>>
  /\ normFailed = FALSE
  /\ rpc = "idle"
  /\ reads = 0
  /\ fragment = <<>>
  /\ dataQueue = <<>>
  /\ llmDone = FALSE
  /\ llmError = ""
  /\ onDataCallback = FALSE
  /\ gpc = "start"
  /\ got = <<>>
  /\ liveAtFault = FALSE
  /\ resolved = 0
  /\ everRaised = FALSE
  /\ scanned = <<>>
  /\ calls = NoCalls
  /\ serial = ResetState
  /\ overlapped = FALSE
  /\ nextPromisses = [i \in Sources |-> "unset"]
  /\ mergePos = "idle"
  /\ winner = 0
  /\ lastIndex = 0
  /\ overtaken = [i \in Sources |-> 0]
  /\ returned = [i \in Sources |-> FALSE]
  /\ respKind = "none"
  /\ dataPrefix = <<>>
  /\ deltas = <<>>
  /\ ending = "end"
  /\ taken = 0
  /\ frames = <<>>
  /\ wpc = "idle"
  /\ maxQPW = 0
  /\ windowMs = 0
  /\ clock = 0
  /\ requestTimestamps = <<>>
  /\ sleeping = <<>>
  /\ admissions = <<>>
  /\ numWorkers \in 1..MaxWorkers
  /\ tasks \in UNION { [1..n -> {"ok", "fail"}] : n \in 0..MaxTasks }
  /\ taskIter = 0
  /\ workers = [w \in 1..numWorkers |-> [pc |-> "idle", task |-> 0]]
  /\ started = [k \in 1..Len(tasks) |-> 0]
  /\ poolPc = "idle"
  /\ accessTokenCache = <<>>
  /\ fetches = <<>>
  /\ getCalls = <<>>
  /\ numSegments = 0
  /\ segTasks = <<>>
  /\ filesToDelete = <<>>
  /\ onDisk = {}
  /\ ttsPc = "idle"
  /\ awaited = 0
  /\ deleteIndex = 0
  /\ ttsOutcome = ""

PoolNext ==
  \/ StartWorkers
  \/ \E w \in 1..numWorkers : TaskSettles(w)
  \/ PoolSettles

PoolSpec == PoolInit /\ [][PoolNext]_vars

\* an empty cache and callers that have not called yet
TokInit ==
  /\ doc = <<>>
  /\ rest = doc
  /\ parser = ResetState
  /\ fresh = NoFresh
  /\ fedLines = <<>>
  /\ kvDoc = <<>>
  /\ kvRest = <<>>
  /\ kvBuffer = <<>>
  /\ kvOut = <<>>
  /\ kvFailed = FALSE
  /\ kvIn = <<>>
  /\ kvTokens = <<>>
  /\ kvItems = <<>>
  /\ answers = [i \in Sources |-> <<>>]
  /\ reqs = [i \in Sources |-> 0]
  /\ slotReq = [i \in Sources |-> 0]
  /\ retired = [i \in Sources |-> FALSE]
  /\ consumed = [i \in Sources |-> 0]
  /\ count = 0
  /\ arrived = <<>>
  /\ raceWinner = 0
  /\ mpc = "idle"
  /\ yielded = [i \in Sources |-> <<>>]
  /\ lateYield = FALSE
  /\ staleYield = FALSE
  /\ retSent = [i \in Sources |-> 0]
  /\ error = 0
  /\ provider = "none"
  /\ usage = NoUsage
  /\ pay = <<>>
  /\ normFailed = FALSE
  /\ rpc = "idle"
  /\ reads = 0
  /\ fragment = <<>>
  /\ dataQueue = <<>>
  /\ llmDone = FALSE
  /\ llmError = ""
  /\ onDataCallback = FALSE
  /\ gpc = "start"
  /\ got = <<>>
  /\ liveAtFault = FALSE
  /\ resolved = 0
  /\ everRaised = FALSE
  /\ scanned = <<>>
  /\ calls = NoCalls
  /\ serial = ResetState
  /\ overlapped = FALSE
  /\ nextPromisses = [i \in Sources |-> "unset"]
  /\ mergePos = "idle"
  /\ winner = 0
  /\ lastIndex = 0
  /\ overtaken = [i \in Sources |-> 0]
  /\ returned = [i \in Sources |-> FALSE]
  /\ respKind = "none"
  /\ dataPrefix = <<>>
  /\ deltas = <<>>
  /\ ending = "end"
  /\ taken = 0
  /\ frames = <<>>
  /\ wpc = "idle"
  /\ maxQPW = 0
  /\ windowMs = 0
  /\ clock = 0
  /\ requestTimestamps = <<>>
  /\ sleeping = <<>>
  /\ admissions = <<>>
  /\ numWorkers = 0
  /\ tasks = <<>>
  /\ taskIter = 0
  /\ workers = <<>>
  /\ started = <<>>
  /\ poolPc = "idle"
  /\ accessTokenCache = [key \in CacheKeys |-> 0]
  /\ fetches = <<>>
  /\ getCalls = [c \in Callers |-> IdleGet]
  /\ numSegments = 0
  /\ segTasks = <<>>
  /\ filesToDelete = <<>>
  /\ onDisk = {}
  /\ ttsPc = "idle"
  /\ awaited = 0
  /\ deleteIndex = 0
  /\ ttsOutcome = ""

TokNext ==
  \/ \E c \in Callers, params \in TokenParams : GetToken(c, params)
  \/ \E c \in Callers : AwaitResumes(c)
  \/ \E p \in 1..MaxFetches : FetchSettles(p)
  \/ \E p \in 1..MaxFetches : TokenExpires(p)

TokSpec == TokInit /\ [][TokNext]_vars

\* tts about to be called on a transcript
TtsInit ==
  /\ doc = <<>>
  /\ rest = doc
  /\ parser = ResetState
  /\ fresh = NoFresh
  /\ fedLines = <<>>
  /\ kvDoc = <<>>
  /\ kvRest = <<>>
  /\ kvBuffer = <<>>
  /\ kvOut = <<>>
  /\ kvFailed = FALSE
  /\ kvIn = <<>>
  /\ kvTokens = <<>>
  /\ kvItems = <<>>
  /\ answers = [i \in Sources |-> <<>>]
  /\ reqs = [i \in Sources |-> 0]
  /\ slotReq = [i \in Sources |-> 0]
  /\ retired = [i \in Sources |-> FALSE]
  /\ consumed = [i \in Sources |-> 0]
  /\ count = 0
  /\ arrived = <<>>
  /\ raceWinner = 0
  /\ mpc = "idle"
  /\ yielded = [i \in Sources |-> <<>>]
  /\ lateYield = FALSE
  /\ staleYield = FALSE
  /\ retSent = [i \in Sources |-> 0]
  /\ error = 0
  /\ provider = "none"
  /\ usage = NoUsage
  /\ pay = <<>>
  /\ normFailed = FALSE
  /\ rpc = "idle"
  /\ reads = 0
  /\ fragment = <<>>
  /\ dataQueue = <<>>
  /\ llmDone = FALSE
  /\ llmError = ""
  /\ onDataCallback = FALSE
  /\ gpc = "start"
  /\ got = <<>>
  /\ liveAtFault = FALSE
  /\ resolved = 0
  /\ everRaised = FALSE
  /\ scanned = <<>>
  /\ calls = NoCalls
  /\ serial = ResetState
  /\ overlapped = FALSE
  /\ nextPromisses = [i \in Sources |-> "unset"]
  /\ mergePos = "idle"
  /\ winner = 0
  /\ lastIndex = 0
  /\ overtaken = [i \in Sources |-> 0]
  /\ returned = [i \in Sources |-> FALSE]
  /\ respKind = "none"
  /\ dataPrefix = <<>>
  /\ deltas = <<>>
  /\ ending = "end"
  /\ taken = 0
  /\ frames = <<>>
  /\ wpc = "idle"
  /\ maxQPW = 0
  /\ windowMs = 0
  /\ clock = 0
  /\ requestTimestamps = <<>>
  /\ sleeping = <<>>
  /\ admissions = <<>>
  /\ numWorkers = 0
  /\ tasks = <<>>
  /\ taskIter = 0
  /\ workers = <<>>
  /\ started = <<>>
  /\ poolPc = "idle"
  /\ accessTokenCache = <<>>
  /\ fetches = <<>>
  /\ getCalls = <<>>
  /\ numSegments \in 1..MaxSegments
  /\ segTasks = <<>>
  /\ filesToDelete = <<>>
  /\ onDisk = {}
  /\ ttsPc = "idle"
  /\ awaited = 0
  /\ deleteIndex = 0
  /\ ttsOutcome = ""

TtsNext ==
  \/ TtsCall
  \/ \E s \in DOMAIN segTasks, ok \in BOOLEAN : SegmentTts(s, ok)
  \/ \E s \in DOMAIN segTasks, ok \in BOOLEAN : SegmentWrite(s, ok)
  \/ \E s \in DOMAIN segTasks, ok \in BOOLEAN : SegmentDetails(s, ok)
  \/ \E ok \in BOOLEAN : TtsTakes(ok)
  \/ TtsRejected
  \/ \E ok \in BOOLEAN : TtsJoins(ok)
  \/ TtsDeletes
  \/ TtsEnds

TtsSpec == TtsInit /\ [][TtsNext]_vars

====
